---------------------------- MODULE Spec2Model ----------------------------
(***************************************************************************)
(* A model of the TravelLLM assistant backend: the reply cleaner           *)
(* (SystemLeakageCleaner), the hallucination detector                       *)
(* (HallucinationDetector), the context extraction and clarification gate  *)
(* of the server, and the /chat handler with its two suspension points.    *)
(*                                                                         *)
(* Texts are TLA+ strings and are handled character by character, the way  *)
(* the JavaScript source handles them.  The source's two non-ASCII         *)
(* characters are written with ASCII stand-ins that occur nowhere else:    *)
(*     "@"  stands for the bullet  U+2022                                  *)
(*     "^"  stands for the degree sign U+00B0                              *)
(***************************************************************************)
EXTENDS Integers, Sequences, FiniteSets, TLC

(***************************************************************************)
(* Characters and strings                                                  *)
(***************************************************************************)
BULLET == "@"
DEGREE == "^"

UpperSeq == "ABCDEFGHIJKLMNOPQRSTUVWXYZ"
LowerSeq == "abcdefghijklmnopqrstuvwxyz"

Ch(s, i) == SubSeq(s, i, i)

Digits == {"0", "1", "2", "3", "4", "5", "6", "7", "8", "9"}
Upper == {Ch(UpperSeq, i) : i \in 1..26}
Lower == {Ch(LowerSeq, i) : i \in 1..26}
Letters == Upper \cup Lower
\* \w of a JavaScript regular expression
WordCh == Letters \cup Digits \cup {"_"}
\* \s of a JavaScript regular expression (the white space the model's texts use)
Space == {" ", "\t", "\n", "\r"}

LowerOf == [c \in Upper |-> Ch(LowerSeq, CHOOSE i \in 1..26 : Ch(UpperSeq, i) = c)]
UpperOf == [c \in Lower |-> Ch(UpperSeq, CHOOSE i \in 1..26 : Ch(LowerSeq, i) = c)]

LowerCh(c) == IF c \in Upper THEN LowerOf[c] ELSE c
UpperCh(c) == IF c \in Lower THEN UpperOf[c] ELSE c

\* String.prototype.toLowerCase (the string is split in halves to keep the
\* evaluation shallow)
RECURSIVE ToLower(_)
ToLower(s) ==
  IF Len(s) = 0 THEN ""
  ELSE IF Len(s) = 1 THEN LowerCh(s)
  ELSE ToLower(SubSeq(s, 1, Len(s) \div 2))
         \o ToLower(SubSeq(s, (Len(s) \div 2) + 1, Len(s)))

Min(S) == CHOOSE m \in S : \A n \in S : m <= n
Max(S) == CHOOSE m \in S : \A n \in S : m >= n

\* the elements of a sequence
Range(xs) == {xs[k] : k \in 1..Len(xs)}

\* the concatenation of the sequences (or strings) ss[lo], ..., ss[hi]
RECURSIVE Flat(_, _, _, _)
Flat(ss, lo, hi, empty) ==
  IF lo > hi THEN empty
  ELSE IF lo = hi THEN ss[lo]
  ELSE Flat(ss, lo, (lo + hi) \div 2, empty)
         \o Flat(ss, ((lo + hi) \div 2) + 1, hi, empty)

\* the substring p starts at position i of s
StartsAt(s, i, p) ==
  /\ i >= 1
  /\ i + Len(p) - 1 <= Len(s)
  /\ SubSeq(s, i, i + Len(p) - 1) = p

\* String.prototype.includes
Includes(s, p) == \E i \in 1..(Len(s) - Len(p) + 1) : StartsAt(s, i, p)

DigitVal(c) == CHOOSE d \in 0..9 : Ch("0123456789", d + 1) = c

\* the end of the digit run that starts at position i of s
DigitRunEnd(s, i) ==
  LET first(stop) == IF stop = {} THEN Len(s) + 1 ELSE Min(stop)
  IN  first({j \in i..Len(s) : Ch(s, j) \notin Digits})

RECURSIVE DigitsVal(_)
DigitsVal(d) ==
  IF d = "" THEN 0
  ELSE DigitsVal(SubSeq(d, 1, Len(d) - 1)) * 10 + DigitVal(Ch(d, Len(d)))

\* parseInt of a string that starts with a digit: the value of the leading digit run
ParseInt(s) == DigitsVal(SubSeq(s, 1, DigitRunEnd(s, 1) - 1))

RECURSIVE IntToStr(_)
IntToStr(n) ==
  IF n < 10 THEN Ch("0123456789", n + 1)
  ELSE IntToStr(n \div 10) \o Ch("0123456789", (n % 10) + 1)

(***************************************************************************)
(* Regular expressions.  A pattern is a tree; M(re, s, i) is the sequence  *)
(* of the matches of re that start at position i of s, in the order a      *)
(* backtracking matcher tries them (greedy repetition first, alternatives  *)
(* left to right).  A match is <<end, gs, ge>>: the position after the     *)
(* match and the bounds of capture group 1 (gs = 0: nothing captured).     *)
(***************************************************************************)
Lit(p) == [t |-> "lit", p |-> p]
\* a literal under the i flag; p is given in lower case
LitI(p) == [t |-> "liti", p |-> p]
Cls(S) == [t |-> "cls", s |-> S]
NCls(S) == [t |-> "ncls", s |-> S]
Cat(rs) == [t |-> "cat", rs |-> rs]
Alt(rs) == [t |-> "alt", rs |-> rs]
\* r{lo,hi}, greedy; hi = -1 is no upper limit
Rep(r, lo, hi) == [t |-> "rep", r |-> r, lo |-> lo, hi |-> hi]
Star(r) == Rep(r, 0, -1)
Plus(r) == Rep(r, 1, -1)
Opt(r) == Rep(r, 0, 1)
\* capture group 1
Grp(r) == [t |-> "grp", r |-> r]
\* ^ and $ under the m flag
Bol == [t |-> "bol"]
Eol == [t |-> "eol"]
\* ^ and $ without the m flag
Bos == [t |-> "bos"]
Eos == [t |-> "eos"]
\* \b
WordB == [t |-> "wb"]
\* (?<!r) for an r that matches exactly n characters
NotBehind(r, n) == [t |-> "nlb", r |-> r, n |-> n]

AltLit(ps) == Alt([k \in 1..Len(ps) |-> Lit(ps[k])])
AltLitI(ps) == Alt([k \in 1..Len(ps) |-> LitI(ps[k])])

IsWordAt(s, i) == i >= 1 /\ i <= Len(s) /\ Ch(s, i) \in WordCh

Here(i) == << <<i, 0, 0>> >>

\* a pattern that matches exactly one character: a class or a one-character literal
IsOneChar(re) ==
  \/ re.t \in {"cls", "ncls"}
  \/ re.t = "lit" /\ Len(re.p) = 1
  \/ re.t = "liti" /\ Len(re.p) = 1

OneCharOk(re, c) ==
  CASE re.t = "cls" -> c \in re.s
    [] re.t = "ncls" -> c \notin re.s
    [] re.t = "lit" -> c = re.p
    [] re.t = "liti" -> LowerCh(c) = re.p

\* the end of the run of characters matching re that starts at position i
RunEnd(re, s, i) ==
  LET first(stop) == IF stop = {} THEN Len(s) + 1 ELSE Min(stop)
  IN  first({j \in i..Len(s) : ~OneCharOk(re, Ch(s, j))})

RECURSIVE M(_, _, _)
RECURSIVE MCat(_, _, _, _, _, _)
RECURSIVE MRep(_, _, _, _, _, _)

M(re, s, i) ==
  CASE re.t = "lit" ->
         IF StartsAt(s, i, re.p) THEN Here(i + Len(re.p)) ELSE <<>>
    [] re.t = "liti" ->
         IF i + Len(re.p) - 1 <= Len(s)
            /\ LowerCh(Ch(s, i)) = Ch(re.p, 1)
            /\ ToLower(SubSeq(s, i, i + Len(re.p) - 1)) = re.p
         THEN Here(i + Len(re.p)) ELSE <<>>
    [] re.t = "cls" ->
         IF i <= Len(s) /\ Ch(s, i) \in re.s THEN Here(i + 1) ELSE <<>>
    [] re.t = "ncls" ->
         IF i <= Len(s) /\ Ch(s, i) \notin re.s THEN Here(i + 1) ELSE <<>>
    [] re.t = "cat" -> MCat(re.rs, 1, s, i, 0, 0)
    [] re.t = "alt" ->
         Flat([k \in 1..Len(re.rs) |-> M(re.rs[k], s, i)], 1, Len(re.rs), <<>>)
    [] re.t = "rep" ->
         IF IsOneChar(re.r)
         THEN \* the longest run first, then one character fewer, down to lo
              LET ends(top) ==
                    IF top < i + re.lo THEN <<>>
                    ELSE [k \in 1..(top - (i + re.lo) + 1) |-> <<top - k + 1, 0, 0>>]
                  capped(run) ==
                    ends(IF re.hi # -1 /\ i + re.hi < run THEN i + re.hi ELSE run)
              IN  capped(RunEnd(re.r, s, i))
         ELSE MRep(re.r, re.lo, re.hi, s, i, 0)
    [] re.t = "grp" ->
         LET captured(ms) == [k \in 1..Len(ms) |-> <<ms[k][1], i, ms[k][1]>>]
         IN  captured(M(re.r, s, i))
    [] re.t = "bol" ->
         IF i = 1 \/ Ch(s, i - 1) = "\n" THEN Here(i) ELSE <<>>
    [] re.t = "eol" ->
         IF i = Len(s) + 1 \/ Ch(s, i) = "\n" THEN Here(i) ELSE <<>>
    [] re.t = "bos" -> IF i = 1 THEN Here(i) ELSE <<>>
    [] re.t = "eos" -> IF i = Len(s) + 1 THEN Here(i) ELSE <<>>
    [] re.t = "wb" ->
         IF IsWordAt(s, i - 1) # IsWordAt(s, i) THEN Here(i) ELSE <<>>
    [] re.t = "nlb" ->
         LET endsHere(ms) == \E k \in 1..Len(ms) : ms[k][1] = i
         IN  IF i - re.n >= 1 /\ endsHere(M(re.r, s, i - re.n))
             THEN <<>> ELSE Here(i)

\* rs[k], rs[k+1], ... from position i, capture group 1 being <<gs, ge>> so far
MCat(rs, k, s, i, gs, ge) ==
  IF k > Len(rs) THEN << <<i, gs, ge>> >>
  ELSE LET rest(ms) ==
             Flat([j \in 1..Len(ms) |->
                     MCat(rs, k + 1, s, ms[j][1],
                          IF ms[j][2] # 0 THEN ms[j][2] ELSE gs,
                          IF ms[j][2] # 0 THEN ms[j][3] ELSE ge)],
                  1, Len(ms), <<>>)
       IN  rest(M(rs[k], s, i))

\* r{lo,hi} from position i after n iterations (an iteration that matched the
\* empty string is not repeated)
MRep(r, lo, hi, s, i, n) ==
  (IF hi = -1 \/ n < hi
   THEN LET more(ms) ==
              Flat([j \in 1..Len(ms) |->
                      IF ms[j][1] > i THEN MRep(r, lo, hi, s, ms[j][1], n + 1)
                      ELSE <<>>],
                   1, Len(ms), <<>>)
        IN  more(M(r, s, i))
   ELSE <<>>)
    \o (IF n >= lo THEN Here(i) ELSE <<>>)

\* the first match of re at position i, as <<start, end, gs, ge>>
MatchAt(re, s, i) ==
  LET first(ms) == <<i, ms[1][1], ms[1][2], ms[1][3]>> IN first(M(re, s, i))

\* re is an assertion: it matches the empty string or nothing
ZeroWidth(re) == re.t \in {"bol", "eol", "bos", "eos", "wb", "nlb"}

\* a necessary condition for re to match at position i, read off the first
\* character: the positions that fail it are not tried
RECURSIVE CanStart(_, _, _)
CanStart(re, s, i) ==
  CASE re.t = "lit" -> re.p = "" \/ (i <= Len(s) /\ Ch(s, i) = Ch(re.p, 1))
    [] re.t = "liti" ->
         re.p = "" \/ (i <= Len(s) /\ LowerCh(Ch(s, i)) = Ch(re.p, 1))
    [] re.t = "cls" -> i <= Len(s) /\ Ch(s, i) \in re.s
    [] re.t = "ncls" -> i <= Len(s) /\ Ch(s, i) \notin re.s
    [] re.t = "cat" ->
         \/ re.rs = <<>>
         \/ /\ CanStart(re.rs[1], s, i)
            /\ (ZeroWidth(re.rs[1]) /\ Len(re.rs) >= 2) => CanStart(re.rs[2], s, i)
    [] re.t = "alt" -> \E k \in 1..Len(re.rs) : CanStart(re.rs[k], s, i)
    [] re.t = "rep" -> re.lo = 0 \/ CanStart(re.r, s, i)
    [] re.t = "grp" -> CanStart(re.r, s, i)
    [] OTHER -> M(re, s, i) # <<>>

\* the positions from which re matches
Starts(re, s, from) ==
  {i \in from..(Len(s) + 1) : CanStart(re, s, i) /\ M(re, s, i) # <<>>}

\* RegExp.prototype.test / String.prototype.match without the g flag:
\* <<start, end, gs, ge>> of the leftmost match, or <<>>
First(re, s) ==
  LET leftmost(st) == IF st = {} THEN <<>> ELSE MatchAt(re, s, Min(st))
  IN  leftmost(Starts(re, s, 1))

Test(re, s) == Starts(re, s, 1) # {}

\* the text of capture group 1 of a match <<start, end, gs, ge>>
Group1(s, m) == IF m[3] = 0 THEN "" ELSE SubSeq(s, m[3], m[4] - 1)

\* the text of a match
Matched(s, m) == SubSeq(s, m[1], m[2] - 1)

\* the matches of re under the g flag, left to right and not overlapping, each
\* <<start, end, gs, ge>> (no pattern of the program matches the empty string)
RECURSIVE Chain(_, _, _, _)
Chain(re, s, st, from) ==
  LET then(m) == <<m>> \o Chain(re, s, st, m[2])
      after(next) == IF next = {} THEN <<>> ELSE then(MatchAt(re, s, Min(next)))
  IN  after({i \in st : i >= from})

Matches(re, s) ==
  LET advances(ms, i) == ms # <<>> /\ ms[1][1] > i
  IN  Chain(re, s,
            {i \in 1..Len(s) : CanStart(re, s, i) /\ advances(M(re, s, i), i)}, 1)

\* String.prototype.match with the g flag: the matched texts
MatchAll(re, s) ==
  LET texts(ms) == [k \in 1..Len(ms) |-> Matched(s, ms[k])]
  IN  texts(Matches(re, s))

\* s with its matches ms replaced by the texts rs
Splice(s, ms, rs) ==
  IF ms = <<>> THEN s
  ELSE Flat([k \in 1..Len(ms) |->
               SubSeq(s, IF k = 1 THEN 1 ELSE ms[k - 1][2], ms[k][1] - 1) \o rs[k]],
            1, Len(ms), "")
         \o SubSeq(s, ms[Len(ms)][2], Len(s))

\* String.prototype.replace with the g flag and the replacement pre$1post
\* (useG = FALSE: the replacement is pre \o post)
ReplaceAll(s, re, pre, useG, post) ==
  LET replaced(ms) ==
        Splice(s, ms,
               [k \in 1..Len(ms) |->
                  pre \o (IF useG THEN Group1(s, ms[k]) ELSE "") \o post])
  IN  replaced(Matches(re, s))

Remove(s, re) == ReplaceAll(s, re, "", FALSE, "")

\* String.prototype.trim
Trim(s) ==
  LET between(ink) == IF ink = {} THEN "" ELSE SubSeq(s, Min(ink), Max(ink))
  IN  between({i \in 1..Len(s) : Ch(s, i) \notin Space})

(***************************************************************************)
(* SystemLeakageCleaner.clean (src/src/cleanSystemLeakage.ts)              *)
(***************************************************************************)
NotDot == NCls({"."})
Sp == Cls(Space)

\* the metaLabels list, every pattern under the g and i flags
metaLabels ==
  << Cat(<<LitI("identify "), Opt(LitI("key ")), LitI("requirement"),
           Opt(LitI("s")), Star(NotDot), Lit(".")>>),
     Cat(<<LitI("consider constraint"), Opt(LitI("s")), Star(NotDot), Lit(".")>>),
     Cat(<<LitI("evaluate option"), Opt(LitI("s")), Star(NotDot), Lit(".")>>),
     Cat(<<LitI("prioritize recommendation"), Opt(LitI("s")), Star(NotDot),
           Lit(".")>>),
     Cat(<<LitI("requirements from"), Star(NotDot), Lit(".")>>),
     Cat(<<LitI("constraints for"), Star(NotDot), Lit(".")>>),
     Cat(<<LitI("**options**"), Opt(Lit(":"))>>),
     Cat(<<LitI("**caveat**"), Opt(Lit(":"))>>),
     Cat(<<LitI("**important caveat**"), Opt(Lit(":"))>>),
     Cat(<<LitI("**note**"), Opt(Lit(":"))>>),
     Cat(<<LitI("**important**"), Opt(Lit(":"))>>),
     Cat(<<LitI("identify key requirements"), Opt(Lit(":"))>>),
     Cat(<<LitI("consider constraints"), Opt(Lit(":"))>>),
     Cat(<<LitI("evaluate options"), Opt(Lit(":"))>>),
     Cat(<<LitI("prioritize recommendations"), Opt(Lit(":"))>>),
     Cat(<<LitI("from the user ("), Plus(NCls({")"})), Lit(")")>>),
     Cat(<<LitI("for this time: "), Plus(NotDot), Lit(".")>>),
     Cat(<<LitI("based on "), Plus(NotDot), Lit(".")>>),
     Cat(<<LitI("account for "), Plus(NotDot), Lit(".")>>),
     Cat(<<LitI("based on"), Star(NotDot), LitI("attractions")>>) >>

NumDot == Grp(Cat(<<Plus(Cls(Digits)), Lit(".")>>))

\* one cleaned = cleaned.replace(re, pre + '$1' + post) statement
Rule(re, pre, useG, post) == [re |-> re, pre |-> pre, useG |-> useG, post |-> post]

\* the replace statements that follow the metaLabels loop, in order
cleanRules ==
  << \* /\*\*/g -> ''
     Rule(Lit("**"), "", FALSE, ""),
     \* /:\s*:/g -> ':'
     Rule(Cat(<<Lit(":"), Star(Sp), Lit(":")>>), ":", FALSE, ""),
     \* /\s{2,}/g -> ' '
     Rule(Rep(Sp, 2, -1), " ", FALSE, ""),
     \* /(\d+\.)\s*:\s*/g -> '$1 '
     Rule(Cat(<<NumDot, Star(Sp), Lit(":"), Star(Sp)>>), "", TRUE, " "),
     \* /\[COMPLEX\]/gi -> ''
     Rule(LitI("[complex]"), "", FALSE, ""),
     \* /Plan:\s*(\d+\.)/g -> 'Plan:\n$1'
     Rule(Cat(<<Lit("Plan:"), Star(Sp), NumDot>>), "Plan:\n", TRUE, ""),
     \* /(\d+\.)\s*/g -> '\n$1 '
     Rule(Cat(<<NumDot, Star(Sp)>>), "\n", TRUE, " "),
     \* /Recommendation:\s*\n*TL;DR:/g -> '\nRecommendation:\nTL;DR:'
     Rule(Cat(<<Lit("Recommendation:"), Star(Sp), Star(Lit("\n")), Lit("TL;DR:")>>),
          "\nRecommendation:\nTL;DR:", FALSE, ""),
     \* /^\s*Plan:\s*$/gm -> 'Plan:'
     Rule(Cat(<<Bol, Star(Sp), Lit("Plan:"), Star(Sp), Eol>>), "Plan:", FALSE, ""),
     \* /^\s*Recommendation:\s*$/gm -> '\nRecommendation:'
     Rule(Cat(<<Bol, Star(Sp), Lit("Recommendation:"), Star(Sp), Eol>>),
          "\nRecommendation:", FALSE, ""),
     \* /\s*<bullet>/g -> '\n<bullet>'
     Rule(Cat(<<Star(Sp), Lit(BULLET)>>), "\n" \o BULLET, FALSE, ""),
     \* /([^\n])\s*Sources:/g -> '$1\n\nSources:'
     Rule(Cat(<<Grp(NCls({"\n"})), Star(Sp), Lit("Sources:")>>),
          "", TRUE, "\n\nSources:"),
     \* /\n{3,}/g -> '\n\n'
     Rule(Rep(Lit("\n"), 3, -1), "\n\n", FALSE, ""),
     \* /[ \t]+$/gm -> ''
     Rule(Cat(<<Plus(Cls({" ", "\t"})), Eol>>), "", FALSE, "") >>

\* metaLabels.forEach(pattern => cleaned = cleaned.replace(pattern, ''));
\* nothing is left to remove from the empty string
RECURSIVE RemoveEach(_, _, _)
RemoveEach(s, pats, k) ==
  IF k > Len(pats) \/ s = "" THEN s
  ELSE RemoveEach(Remove(s, pats[k]), pats, k + 1)

\* the replace statements rules[k], rules[k+1], ... applied in order; every
\* one of them leaves the empty string empty
RECURSIVE ApplyRules(_, _, _)
ApplyRules(s, rules, k) ==
  IF k > Len(rules) \/ s = "" THEN s
  ELSE ApplyRules(ReplaceAll(s, rules[k].re, rules[k].pre, rules[k].useG,
                             rules[k].post),
                  rules, k + 1)

clean(response) ==
  Trim(ApplyRules(RemoveEach(response, metaLabels, 1), cleanRules, 1))

(***************************************************************************)
(* HallucinationDetector (src/src/hallucinationDetector.ts)                *)
(*                                                                         *)
(* An external context is NullContext or a record with a weather field.   *)
(* weather.temp_avg is kept in tenths of a degree (temp_avg10), so that    *)
(* Math.round has something to round; rain_probability is a whole number.  *)
(***************************************************************************)
NullContext == [isNull |-> TRUE]
WeatherContext(temp_avg10, rain_probability) ==
  [isNull |-> FALSE,
   weather |-> [temp_avg10 |-> temp_avg10, rain_probability |-> rain_probability]]

\* externalContext?.weather is truthy
HasWeather(externalContext) == ~externalContext.isNull

Digit == Cls(Digits)
AmPm == AltLit(<<"AM", "PM", "am", "pm">>)
\* (AM|PM|am|pm) under the i flag
AmPmI == AltLitI(<<"am", "pm">>)

suspiciousPatterns ==
  << \* /exactly \$?\d+/gi
     Cat(<<LitI("exactly "), Opt(Lit("$")), Plus(Digit)>>),
     \* /precisely \$?\d+/gi
     Cat(<<LitI("precisely "), Opt(Lit("$")), Plus(Digit)>>),
     \* /\$\d{3,}\.\d{2}/g
     Cat(<<Lit("$"), Rep(Digit, 3, -1), Lit("."), Rep(Digit, 2, 2)>>),
     \* /\b\d{1,2}:\d{2}\s*(AM|PM|am|pm)\b/g
     Cat(<<WordB, Rep(Digit, 1, 2), Lit(":"), Rep(Digit, 2, 2), Star(Sp), AmPm,
           WordB>>),
     \* /\b(guaranteed|definitely|always|never)\b/gi
     Cat(<<WordB, AltLitI(<<"guaranteed", "definitely", "always", "never">>),
           WordB>>) >>

\* /\d+<degree>[CF]|\d+\s*degrees/gi
TempMention ==
  Alt(<<Cat(<<Plus(Digit), Lit(DEGREE), Cls({"C", "F", "c", "f"})>>),
        Cat(<<Plus(Digit), Star(Sp), LitI("degrees")>>)>>)

\* /\b(rain|sunny|cloudy|storm|snow|fog|humid)\b/gi
WeatherTerm ==
  Cat(<<WordB,
        AltLitI(<<"rain", "sunny", "cloudy", "storm", "snow", "fog", "humid">>),
        WordB>>)

\* /(\d+)<degree>[CF]/g
TempClaim == Cat(<<Grp(Plus(Digit)), Lit(DEGREE), Cls({"C", "F"})>>)

\* /(\d+)%\s*(?:chance|probability)?\s*(?:of)?\s*rain/gi
RainClaim ==
  Cat(<<Grp(Plus(Digit)), Lit("%"), Star(Sp),
        Opt(AltLitI(<<"chance", "probability">>)), Star(Sp), Opt(LitI("of")),
        Star(Sp), LitI("rain")>>)

\* a number as a template literal prints it
NumToStr(n) == IF n < 0 THEN "-" \o IntToStr(-n) ELSE IntToStr(n)

\* Math.round of a number given in tenths: the nearest integer, halves upwards
RoundTenths(t10) == (t10 + 5) \div 10

\* the issue of a stated temperature that is more than 3 from the rounded average
tempIssue(claim, apiTemp) ==
  LET check(stated) ==
        IF stated - apiTemp > 3 \/ apiTemp - stated > 3
        THEN <<"Temperature " \o claim \o " differs from API data ("
                 \o NumToStr(apiTemp) \o DEGREE \o "C)">>
        ELSE <<>>
  IN  check(ParseInt(claim))

\* the issue of a stated rain probability that is more than 10 from the actual one
rainIssue(claim, actual) ==
  LET check(claimedProb) ==
        IF claimedProb - actual > 10 \/ actual - claimedProb > 10
        THEN <<"Rain probability claim differs from API (actual: "
                 \o NumToStr(actual) \o "%)">>
        ELSE <<>>
  IN  check(ParseInt(claim))

\* the issues checkWeatherContradictions pushes
checkWeatherContradictions(response, weather) ==
  LET tempIssues(tempMatches, apiTemp) ==
        Flat([k \in 1..Len(tempMatches) |-> tempIssue(tempMatches[k], apiTemp)],
             1, Len(tempMatches), <<>>)
      rainIssues(rainClaims) ==
        Flat([k \in 1..Len(rainClaims) |->
                rainIssue(rainClaims[k], weather.rain_probability)],
             1, Len(rainClaims), <<>>)
  IN  tempIssues(MatchAll(TempClaim, response), RoundTenths(weather.temp_avg10))
        \o rainIssues(MatchAll(RainClaim, response))

\* the issues of the suspiciousPatterns loop, one per match, pattern by pattern
specificIssues(response) ==
  LET perPattern(found) ==
        [k \in 1..Len(found) |-> "Overly specific claim: \"" \o found[k] \o "\""]
  IN  Flat([p \in 1..Len(suspiciousPatterns) |->
              perPattern(MatchAll(suspiciousPatterns[p], response))],
           1, Len(suspiciousPatterns), <<>>)

\* a detector that scores 25 for every contradiction (the variant
\* ContradictionsUnscored excludes)
rawConfidenceContradictions(response, externalContext) ==
  5 * Len(specificIssues(response))
    + (IF HasWeather(externalContext)
       THEN 25 * Len(checkWeatherContradictions(response, externalContext.weather))
       ELSE 0)

\* the confidence score before the cap of line 54
rawConfidence(response, externalContext) ==
  LET noData == ~HasWeather(externalContext)
      temp == noData /\ Test(TempMention, response)
      cond == /\ noData
              /\ Test(WeatherTerm, response)
              /\ ~Includes(response, "typically")
              /\ ~Includes(response, "usually")
              /\ ~Includes(response, "normally")
              /\ ~Includes(response, "probably")
  IN  (IF temp THEN 30 ELSE 0) + (IF cond THEN 20 ELSE 0)
        + 5 * Len(specificIssues(response))

\* a detector without the cap of line 54 (the variant ConfidenceInRange excludes)
capConfidenceNone(confidenceScore) == confidenceScore

\* Math.min(confidenceScore, 65)
capConfidence(confidenceScore) ==
  IF confidenceScore < 65 THEN confidenceScore ELSE 65

detectHallucinations(response, externalContext) ==
  LET noData == ~HasWeather(externalContext)
      tempIssues ==
        IF noData /\ Test(TempMention, response)
        THEN <<"Specific temperature mentioned without weather data">>
        ELSE <<>>
      condIssues ==
        IF /\ noData
           /\ Test(WeatherTerm, response)
           /\ ~Includes(response, "typically")
           /\ ~Includes(response, "usually")
           /\ ~Includes(response, "normally")
           /\ ~Includes(response, "probably")
        THEN <<"Weather conditions stated without data source">>
        ELSE <<>>
      contradictions ==
        IF HasWeather(externalContext)
        THEN checkWeatherContradictions(response, externalContext.weather)
        ELSE <<>>
      result(issues) ==
        [suspicious |-> issues # <<>>,
         issues |-> issues,
         confidence |-> capConfidence(rawConfidence(response, externalContext))]
  IN  result(tempIssues \o condIssues \o specificIssues(response) \o contradictions)

(***************************************************************************)
(* fixHallucinations and validateResponse                                  *)
(***************************************************************************)
\* /\d{1,2}:\d{2}\s*(?:AM|PM|am|pm)/ under the i flag
ClockTime == Cat(<<Rep(Digit, 1, 2), Lit(":"), Rep(Digit, 2, 2), Star(Sp), AmPmI>>)

\* /starts|begins|opens|served|scheduled|departs|arrives|closes/i
ScheduleVerb ==
  AltLitI(<<"starts", "begins", "opens", "served", "scheduled", "departs",
            "arrives", "closes">>)

\* String.prototype.indexOf, 0-based; -1 when p does not occur
IndexOf(s, p) ==
  LET first(at) == IF at = {} THEN -1 ELSE Min(at) - 1
  IN  first({i \in 1..(Len(s) - Len(p) + 1) : StartsAt(s, i, p)})

\* String.prototype.substring(from, to), 0-based, for from <= to
Substring(s, from, to) ==
  LET f == IF from < 0 THEN 0 ELSE from
      t == IF to < 0 THEN 0 ELSE to
  IN  IF f <= t THEN SubSeq(s, f + 1, t) ELSE SubSeq(s, t + 1, f)

\* issues.some(issue => issue.includes('AM') || ... || issue.match(/\d{1,2}:\d{2}/))
hasTimeIssue(issues) ==
  \E k \in 1..Len(issues) :
     \/ Includes(issues[k], "AM")
     \/ Includes(issues[k], "PM")
     \/ Includes(issues[k], "am")
     \/ Includes(issues[k], "pm")
     \/ Test(Cat(<<Rep(Digit, 1, 2), Lit(":"), Rep(Digit, 2, 2)>>), issues[k])

\* the callback of the second rewrite, for the matched text match: it reads
\* the text as it is before this replace and looks up the first occurrence of
\* the matched text in it
aroundIfScheduled(text, match) ==
  LET before(index) == Substring(text, IF index - 50 > 0 THEN index - 50 ELSE 0, index)
  IN  IF Test(ScheduleVerb, before(IndexOf(text, match)))
      THEN "around " \o match ELSE match

\* lines 116-132: the two rewrites of clock times
fixTimes(fixed) ==
  LET \* /(?<!\baround\s)(?<!\bat\s)(\d{1,2}:\d{2}\s*(?:AM|PM|am|pm))/gi
      bare == Cat(<<NotBehind(Cat(<<WordB, LitI("around"), Sp>>), 7),
                    NotBehind(Cat(<<WordB, LitI("at"), Sp>>), 3),
                    ClockTime>>)
      spliced(f1, ms) ==
        Splice(f1, ms,
               [k \in 1..Len(ms) |-> aroundIfScheduled(f1, Matched(f1, ms[k]))])
      second(f1) == spliced(f1, Matches(bare, f1))
  IN  \* /\bat\s+(\d{1,2}:\d{2}\s*(?:AM|PM|am|pm))\b/gi -> 'around $1'
      second(ReplaceAll(fixed,
                        Cat(<<WordB, LitI("at"), Plus(Sp), Grp(ClockTime), WordB>>),
                        "around ", TRUE, ""))

\* a price repair that keeps the whole dollars as they are (the variant
\* ScenarioCAsBuilt excludes)
roundToTenNot(amount) == amount

\* Math.round(amount / 10) * 10
roundToTen(amount) == ((amount + 5) \div 10) * 10

\* lines 135-139: /\$(\d{3,})\.(\d{2})/g -> `around $${rounded}`
fixPrices(fixed) ==
  LET rounded(ms) ==
        Splice(fixed, ms,
               [k \in 1..Len(ms) |->
                  "around $" \o IntToStr(roundToTen(ParseInt(Group1(fixed, ms[k]))))])
  IN  rounded(Matches(Cat(<<Lit("$"), Grp(Rep(Digit, 3, -1)), Lit("."),
                            Rep(Digit, 2, 2)>>),
                      fixed))

\* line 142: /\. ([a-z])/g -> '. ' + letter.toUpperCase()
capitalize(fixed) ==
  LET upper(ms) ==
        Splice(fixed, ms,
               [k \in 1..Len(ms) |-> ". " \o UpperCh(Group1(fixed, ms[k]))])
  IN  upper(Matches(Cat(<<Lit(". "), Grp(Cls(Lower))>>), fixed))

\* lines 99-106: the replacements of numeric claims and absolute statements
hedgeRules ==
  << \* /exactly (\$?\d+)/gi -> 'approximately $1'
     Rule(Cat(<<LitI("exactly "), Grp(Cat(<<Opt(Lit("$")), Plus(Digit)>>))>>),
          "approximately ", TRUE, ""),
     \* /precisely (\$?\d+)/gi -> 'around $1'
     Rule(Cat(<<LitI("precisely "), Grp(Cat(<<Opt(Lit("$")), Plus(Digit)>>))>>),
          "around ", TRUE, ""),
     \* /\bguaranteed\b/gi -> 'likely'
     Rule(Cat(<<WordB, LitI("guaranteed"), WordB>>), "likely", FALSE, ""),
     \* /\bdefinitely\b/gi -> 'probably'
     Rule(Cat(<<WordB, LitI("definitely"), WordB>>), "probably", FALSE, ""),
     \* /\balways\b/gi -> 'typically'
     Rule(Cat(<<WordB, LitI("always"), WordB>>), "typically", FALSE, ""),
     \* /\bnever\b/gi -> 'rarely'
     Rule(Cat(<<WordB, LitI("never"), WordB>>), "rarely", FALSE, "") >>

fixHallucinations(originalResponse, issues) ==
  LET timed(hedged) == IF hasTimeIssue(issues) THEN fixTimes(hedged) ELSE hedged
  IN  capitalize(fixPrices(timed(ApplyRules(originalResponse, hedgeRules, 1))))

\* a validator that never repairs (the variant ValidationPolicy excludes)
validateResponseNoFix(response, externalContext, autoFix) ==
  [valid |-> TRUE, response |-> response, issues |-> <<>>, hasIssues |-> FALSE,
   confidence |-> detectHallucinations(response, externalContext).confidence,
   wasFixed |-> FALSE]

validateResponse(response, externalContext, autoFix) ==
  LET decide(detection) ==
        IF ~detection.suspicious \/ detection.confidence < 30
        THEN [valid |-> TRUE, response |-> response, issues |-> <<>>,
              hasIssues |-> FALSE, confidence |-> detection.confidence,
              wasFixed |-> FALSE]
        ELSE IF autoFix /\ detection.confidence <= 50
        THEN [valid |-> TRUE,
              response |-> fixHallucinations(response, detection.issues),
              issues |-> detection.issues, hasIssues |-> TRUE,
              confidence |-> detection.confidence, wasFixed |-> TRUE]
        ELSE IF autoFix /\ detection.confidence <= 65
        THEN [valid |-> TRUE,
              response |-> fixHallucinations(response, detection.issues),
              issues |-> detection.issues, hasIssues |-> TRUE,
              confidence |-> detection.confidence, wasFixed |-> TRUE]
        ELSE [valid |-> FALSE, response |-> response, issues |-> detection.issues,
              hasIssues |-> TRUE, confidence |-> detection.confidence,
              wasFixed |-> FALSE]
  IN  decide(detectHallucinations(response, externalContext))

(***************************************************************************)
(* Context extraction and the clarification gate (src/unnamed/part_001,    *)
(* the server that imports the cleaner, the detector and the conversation  *)
(* manager).  A Message is [role, text]; its timestamp is never read.      *)
(* A function that returns string | null returns Null for null, which is   *)
(* no text of the program.                                                 *)
(***************************************************************************)
Null == "<null>"

Message(role, text) == [role |-> role, text |-> text]

Letter == Cls(Letters)

\* (monday|tuesday|...|sunday|tomorrow|today) of the two day-only patterns
DayWord ==
  AltLitI(<<"monday", "tuesday", "wednesday", "thursday", "friday", "saturday",
            "sunday", "tomorrow", "today">>)

\* /^(what about|how about|and)\s+(monday|...|today)\s*\??$/i
dayOnlyPattern ==
  Cat(<<Bos, AltLitI(<<"what about", "how about", "and">>), Plus(Sp), DayWord,
        Star(Sp), Opt(Lit("?")), Eos>>)

\* /\b(there|that place|this city|it)\b/ (lines 199, 211 and 393, on lower case)
pronounPattern ==
  Cat(<<WordB, AltLit(<<"there", "that place", "this city", "it">>), WordB>>)

\* /\b(there|that place|this city|that city|it)\b/i (line 322)
contextualReferences ==
  Cat(<<WordB, AltLitI(<<"there", "that place", "this city", "that city", "it">>),
        WordB>>)

knownCities ==
  << "Paris", "London", "Tokyo", "New York", "Los Angeles", "Chicago",
     "Tel Aviv", "Jerusalem", "Dubai", "Bangkok", "Singapore", "Sydney",
     "Rome", "Milan", "Barcelona", "Madrid", "Berlin", "Munich",
     "Amsterdam", "Prague", "Vienna", "Budapest", "Istanbul", "Cairo",
     "Mumbai", "Delhi", "Beijing", "Shanghai", "Hong Kong", "Seoul",
     "Toronto", "Montreal", "Vancouver", "Mexico City", "Rio de Janeiro",
     "Buenos Aires", "Lima", "Bogota", "Cape Town", "Johannesburg",
     "Haifa", "Eilat", "Nazareth", "Tiberias", "Ashdod", "Netanya" >>

knownCitiesLower == [k \in 1..Len(knownCities) |-> ToLower(knownCities[k])]

\* new RegExp('\\b' + word + '\\b', 'i').test(text), on the lower-cased text
hasWord(textLower, wordLower) ==
  \E i \in 1..(Len(textLower) - Len(wordLower) + 1) :
     /\ StartsAt(textLower, i, wordLower)
     /\ IsWordAt(textLower, i - 1) # IsWordAt(textLower, i)
     /\ IsWordAt(textLower, i + Len(wordLower) - 1)
          # IsWordAt(textLower, i + Len(wordLower))

\* [A-Z][a-z]+(?:\s+[A-Z][a-z]+){0,2} under the i flag: both classes are letters
CapWords ==
  Cat(<<Letter, Plus(Letter), Rep(Cat(<<Plus(Sp), Letter, Plus(Letter)>>), 0, 2)>>)

weatherPatterns ==
  << \* /(?:weather|forecast|climate|temperature|temp)\s+(?:in|for|at|of)\s+
     \*  ([A-Za-z]+(?:\s+[A-Za-z]+){0,2})/i
     Cat(<<AltLitI(<<"weather", "forecast", "climate", "temperature", "temp">>),
           Plus(Sp), AltLitI(<<"in", "for", "at", "of">>), Plus(Sp),
           Grp(Cat(<<Plus(Letter),
                     Rep(Cat(<<Plus(Sp), Plus(Letter)>>), 0, 2)>>))>>),
     \* /\b([A-Z][a-z]+(?:\s+[A-Z][a-z]+){0,2})\s+
     \*  (?:weather|forecast|climate|temperature)/i
     Cat(<<WordB, Grp(CapWords), Plus(Sp),
           AltLitI(<<"weather", "forecast", "climate", "temperature">>)>>),
     \* /\bin\s+([A-Z][a-z]+(?:\s+[A-Z][a-z]+){0,2})\s+(?:today|tomorrow|now)/i
     Cat(<<WordB, LitI("in"), Plus(Sp), Grp(CapWords), Plus(Sp),
           AltLitI(<<"today", "tomorrow", "now">>)>>),
     \* /\b(?:in|at|for)\s+([A-Z][a-z]+(?:\s+[A-Z][a-z]+){0,2})\b/i
     Cat(<<WordB, AltLitI(<<"in", "at", "for">>), Plus(Sp), Grp(CapWords),
           WordB>>) >>

invalidPhrases ==
  << "No Rain", "No Snow", "No Wind", "No Cloud", "High Temperature",
     "Low Temperature", "The Weather", "Bad Weather", "Good Weather",
     "Nice Weather", "ExternalContext", "LLM knowledge", "Sources:", "TL;DR:",
     "Response time:" >>

invalidPhrasesLower ==
  [j \in 1..Len(invalidPhrases) |-> ToLower(invalidPhrases[j])]

stopWords ==
  { "weather", "forecast", "temperature", "climate", "the", "what", "how",
    "when", "where", "will", "be", "it", "there", "here", "this", "that",
    "should", "could", "would", "january", "february", "march", "april", "may",
    "june", "july", "august", "september", "october", "november", "december" }

\* city.split(' ').map(word => word.charAt(0).toUpperCase()
\*                             + word.slice(1).toLowerCase()).join(' ')
titleCase(city) ==
  Flat([i \in 1..Len(city) |->
          IF i = 1 \/ Ch(city, i - 1) = " " THEN UpperCh(Ch(city, i))
          ELSE LowerCh(Ch(city, i))],
       1, Len(city), "")

\* lines 412-417: the clean-up of a captured city
tidyCity(captured) ==
  LET \* /[?\.,!]$/
      unpunctuated(c) ==
        IF c # "" /\ Ch(c, Len(c)) \in {"?", ".", ",", "!"}
        THEN SubSeq(c, 1, Len(c) - 1) ELSE c
      cut(c, m) == IF m = <<>> THEN c ELSE SubSeq(c, 1, m[1] - 1)
      \* /\s+(today|tomorrow|next|this|weather|forecast|in|on|at)$/i
      untrailed(c) ==
        cut(c, First(Cat(<<Plus(Sp),
                           AltLitI(<<"today", "tomorrow", "next", "this", "weather",
                                     "forecast", "in", "on", "at">>),
                           Eos>>), c))
  IN  Trim(unpunctuated(untrailed(Trim(captured))))

\* the city pattern k yields, or Null when it does not match or its capture is
\* rejected (an invalid phrase, a stop word, two characters or fewer)
cityByPattern(text, k) ==
  LET accepted(city, cityLower) ==
        IF \E j \in 1..Len(invalidPhrases) : Includes(cityLower, invalidPhrasesLower[j])
        THEN Null
        ELSE IF cityLower \notin stopWords /\ Len(city) > 2 THEN titleCase(city)
        ELSE Null
      tidied(city) == accepted(city, ToLower(city))
      captured(m) ==
        IF m = <<>> \/ Group1(text, m) = "" THEN Null
        ELSE tidied(tidyCity(Group1(text, m)))
  IN  captured(First(weatherPatterns[k], text))

\* the weatherPatterns loop from pattern k on
RECURSIVE cityFromPatterns(_, _)
cityFromPatterns(text, k) ==
  LET next(city) == IF city # Null THEN city ELSE cityFromPatterns(text, k + 1)
  IN  IF k > Len(weatherPatterns) THEN Null ELSE next(cityByPattern(text, k))

extractCityFromText(text) ==
  LET found(textLower, known) ==
        IF \E phrase \in {"weather there", "forecast there", "temperature there",
                          "climate there"} : Includes(textLower, phrase)
        THEN Null
        ELSE IF \E term \in {"ExternalContext", "LLM knowledge", "Sources:",
                             "TL;DR:", "Response time:"} : Includes(text, term)
        THEN Null
        ELSE IF known # {} THEN knownCities[Min(known)]
        ELSE IF Test(pronounPattern, textLower) THEN Null
        ELSE cityFromPatterns(text, 1)
      lowered(textLower) ==
        found(textLower,
              {k \in 1..Len(knownCities) : hasWord(textLower, knownCitiesLower[k])})
  IN  lowered(ToLower(text))

\* conversation.slice(-10).reverse()
HistoryWindow == 10

\* a look-back over the whole conversation (the variant PronounGate excludes)
recentReversedAll(conversation) ==
  [k \in 1..Len(conversation) |-> conversation[Len(conversation) - k + 1]]

recentReversed(conversation) ==
  [k \in 1..(IF Len(conversation) < HistoryWindow THEN Len(conversation)
             ELSE HistoryWindow) |->
     conversation[Len(conversation) - k + 1]]

\* a loop that goes on to the oldest message that has a city (the variant
\* NewestCityWins excludes)
oldestCity(recentMessages, k) ==
  LET last(withCity) ==
        IF withCity = {} THEN Null
        ELSE extractCityFromText(recentMessages[Max(withCity)].text)
  IN  last({j \in k..Len(recentMessages) :
              extractCityFromText(recentMessages[j].text) # Null})

\* the for loop of extractCityName: the city of the first message that has one
RECURSIVE firstCity(_, _)
firstCity(recentMessages, k) ==
  LET next(city) == IF city # Null THEN city ELSE firstCity(recentMessages, k + 1)
  IN  IF k > Len(recentMessages) THEN Null
      ELSE next(extractCityFromText(recentMessages[k].text))

extractCityName(query, conversation) ==
  LET usesContext == Test(contextualReferences, query)
      isDayOnly == Test(dayOnlyPattern, query)
      orFromQuery(found) == IF found # Null THEN found ELSE extractCityFromText(query)
  IN  IF (usesContext \/ isDayOnly) /\ Len(conversation) > 0
      THEN orFromQuery(firstCity(recentReversed(conversation), 1))
      ELSE extractCityFromText(query)

\* a gate for which no reply ever asked 'which city' (the variant TooShortGate
\* excludes)
lastAssistantAskedCityNever(conversation) == FALSE

\* lines 229-230 and 646-652:
\* [...conversation].reverse().find(m => m.role === 'assistant')
\*   ?.text.toLowerCase().includes('which city')
lastAssistantAskedCity(conversation) ==
  LET asked(replies) ==
        replies # {} /\ Includes(ToLower(conversation[Max(replies)].text), "which city")
  IN  asked({k \in 1..Len(conversation) : conversation[k].role = "assistant"})

WeekdayWord ==
  AltLit(<<"monday", "tuesday", "wednesday", "thursday", "friday", "saturday",
           "sunday">>)

\* q.split(' ').length
splitCount(q) == Cardinality({i \in 1..Len(q) : Ch(q, i) = " "}) + 1

AskDayCity ==
  "I'd be happy to help with that day's forecast! Which city are you asking about?"
AskWeatherCity ==
  "I'd be happy to help with weather information! Which city are you asking about?"
AskWhichLocation ==
  "I notice you're referring to a location, but I'm not sure which one. Could you specify the city you're asking about?"
AskWeatherCityNoRef ==
  "I'd be happy to help with weather information! Which city would you like to know about?"
AskContext ==
  "I'd be happy to help! Could you provide more context about what you'd like to know?"
AskDetails == "Could you provide more details about what you'd like to know?"

needsClarification(message, conversation) ==
  LET rules(q, cityInHistory, hasPronoun) ==
        IF Test(dayOnlyPattern, q)
        THEN IF cityInHistory = Null THEN AskDayCity ELSE Null
        ELSE IF hasPronoun /\ cityInHistory = Null
        THEN IF Includes(q, "weather") THEN AskWeatherCity ELSE AskWhichLocation
        ELSE IF Includes(q, "weather") /\ ~hasPronoun /\ cityInHistory = Null
        THEN AskWeatherCityNoRef
        ELSE IF (q = "how about tomorrow?" \/ q = "what about next week?")
                /\ Len(conversation) = 0
        THEN AskContext
        ELSE IF /\ splitCount(q) <= 2
                /\ ~Includes(q, "?")
                /\ ~Test(WeekdayWord, q)
                \* !q.match(/^[a-z]+(?:\s+[a-z]+)?$/)
                /\ ~Test(Cat(<<Bos, Plus(Cls(Lower)),
                               Opt(Cat(<<Plus(Sp), Plus(Cls(Lower))>>)), Eos>>), q)
        THEN IF Len(conversation) > 0 /\ lastAssistantAskedCity(conversation)
             THEN Null ELSE AskDetails
        ELSE Null
      lowered(q) ==
        rules(q, extractCityName(message, conversation), Test(pronounPattern, q))
  IN  lowered(ToLower(message))

weatherKeywords ==
  { "weather", "temperature", "forecast", "climate", "rain", "sunny", "cloudy",
    "today", "now", "current", "tomorrow", "next week", "monday", "tuesday",
    "wednesday", "thursday", "friday", "saturday", "sunday", "this week",
    "weekend", "hot", "cold", "warm", "cool" }

needsExternal(query) ==
  LET asks(q) ==
        \* /^(what about|how about|and)\s+(monday|...|today)/i
        \/ Test(Cat(<<Bos, AltLitI(<<"what about", "how about", "and">>), Plus(Sp),
                      DayWord>>), q)
        \/ \E k \in weatherKeywords : Includes(q, k)
  IN  asks(ToLower(query))

\* a count that takes the current weekday itself for the named one (the
\* variant WeekdayOffsetLaw excludes)
getDaysUntilWeekdaySameDay(targetWeekday, currentWeekday) ==
  IF targetWeekday - currentWeekday < 0
  THEN targetWeekday - currentWeekday + 7
  ELSE targetWeekday - currentWeekday

\* getDaysUntilWeekday, with the weekday of new Date() passed in
getDaysUntilWeekday(targetWeekday, currentWeekday) ==
  IF targetWeekday - currentWeekday <= 0
  THEN targetWeekday - currentWeekday + 7
  ELSE targetWeekday - currentWeekday

\* the weekdays array of extractDayInfo with the day numbers of weekdayMappings
weekdays ==
  << <<"monday", 1>>, <<"tuesday", 2>>, <<"wednesday", 3>>, <<"wedensday", 3>>,
     <<"wednessday", 3>>, <<"thursday", 4>>, <<"friday", 5>>, <<"saturday", 6>>,
     <<"sunday", 0>> >>

DayInfo(targetDay, daysAhead) == [targetDay |-> targetDay, daysAhead |-> daysAhead]

extractDayInfo(query, currentWeekday) ==
  LET weekday(day) ==
        DayInfo(IF StartsAt(day[1], 1, "wednes") THEN "wednesday" ELSE day[1],
                getDaysUntilWeekday(day[2], currentWeekday))
      listed(named) == IF named # {} THEN weekday(weekdays[Min(named)])
                       ELSE DayInfo("today", 0)
      parsed(q) ==
        IF Includes(q, "tomorrow") \/ Includes(q, "tommorow")
        THEN DayInfo("tomorrow", 1)
        ELSE IF Includes(q, "day after tomorrow")
        THEN DayInfo("day after tomorrow", 2)
        ELSE IF Includes(q, "today") THEN DayInfo("today", 0)
        ELSE listed({k \in 1..Len(weekdays) : Includes(q, weekdays[k][1])})
  IN  parsed(ToLower(query))

(***************************************************************************)
(* ConversationManager (src/src/conversationManager.ts).  A memory is      *)
(* [messages, userPreferences, mentionedLocations]; an unset preference is *)
(* Null (budget) or the empty sequence (interests, dietaryRestrictions);   *)
(* the Set mentionedLocations is a sequence without repetitions, in        *)
(* insertion order.                                                        *)
(***************************************************************************)
\* message.match(/w1|w2|.../i)
matchesAny(message, words) == \E w \in words : Includes(ToLower(message), w)

\* [...new Set([...xs, ...ys])]: ys appended to xs, first occurrences kept
RECURSIVE union(_, _)
union(xs, ys) ==
  IF ys = <<>> THEN xs
  ELSE union(IF \E k \in 1..Len(xs) : xs[k] = Head(ys) THEN xs ELSE Append(xs, Head(ys)),
             Tail(ys))

NoPreferences == [budget |-> Null, interests |-> <<>>, dietaryRestrictions |-> <<>>]

EmptyMemory ==
  [messages |-> <<>>, userPreferences |-> NoPreferences, mentionedLocations |-> <<>>]

\* the interest tags of lines 58-63, in the order they are pushed
interestTags ==
  << <<"culture", {"museum", "art", "history", "culture", "temple", "monument"}>>,
     <<"nature", {"beach", "hiking", "outdoor", "nature", "mountain", "park"}>>,
     <<"food", {"food", "restaurant", "cuisine", "eat", "culinary", "street food"}>>,
     <<"shopping", {"shopping", "mall", "market", "souvenir"}>>,
     <<"nightlife", {"nightlife", "club", "bar", "party", "pub"}>>,
     <<"adventure", {"adventure", "extreme", "adrenaline", "diving", "climbing"}>> >>

extractPreferences(message, existing) ==
  LET budget ==
        IF matchesAny(message, {"budget", "cheap", "affordable", "backpack"})
        THEN "budget"
        ELSE IF matchesAny(message, {"luxury", "high-end", "premium", "first class"})
        THEN "luxury"
        ELSE IF matchesAny(message, {"moderate", "mid-range", "comfortable"})
        THEN "moderate"
        ELSE existing.budget
      interests ==
        Flat([k \in 1..Len(interestTags) |->
                IF matchesAny(message, interestTags[k][2]) THEN <<interestTags[k][1]>>
                ELSE <<>>],
             1, Len(interestTags), <<>>)
      \* message.match(/(vegetarian|vegan|halal|kosher|gluten-free)/gi), lower-cased
      lowered(rs) == [k \in 1..Len(rs) |-> ToLower(rs[k])]
      restrictions ==
        lowered(MatchAll(AltLitI(<<"vegetarian", "vegan", "halal", "kosher",
                                   "gluten-free">>), message))
      dietary(found) ==
        IF matchesAny(message, {"vegetarian", "vegan", "halal", "kosher", "gluten"})
           /\ found # <<>>
        THEN union(<<>>, found) ELSE existing.dietaryRestrictions
  IN  [budget |-> budget,
       interests |-> union(existing.interests, interests),
       dietaryRestrictions |-> dietary(restrictions)]

\* [A-Z][a-z]+(?:\s+[A-Z][a-z]+)*
CapitalizedWords ==
  Cat(<<Cls(Upper), Plus(Cls(Lower)),
        Star(Cat(<<Plus(Sp), Cls(Upper), Plus(Cls(Lower))>>))>>)

cityPatterns ==
  << \* /(?:visit|go to|travel to|fly to|in|at)\s+([A-Z][a-z]+(?:\s+[A-Z][a-z]+)*)/g
     Cat(<<AltLit(<<"visit", "go to", "travel to", "fly to", "in", "at">>), Plus(Sp),
           Grp(CapitalizedWords)>>),
     \* /([A-Z][a-z]+(?:\s+[A-Z][a-z]+)*)\s+(?:trip|vacation|holiday)/g
     Cat(<<Grp(CapitalizedWords), Plus(Sp), AltLit(<<"trip", "vacation", "holiday">>)>>) >>

falsePositives ==
  { "I", "The", "This", "That", "When", "Where", "What", "How", "Monday", "Tuesday",
    "Wednesday", "Thursday", "Friday", "Saturday", "Sunday" }

extractLocations(message) ==
  LET kept(ms) ==
        Flat([k \in 1..Len(ms) |->
                IF Len(Group1(message, ms[k])) > 2
                   /\ Group1(message, ms[k]) \notin falsePositives
                THEN <<Group1(message, ms[k])>> ELSE <<>>],
             1, Len(ms), <<>>)
  IN  kept(Matches(cityPatterns[1], message)) \o kept(Matches(cityPatterns[2], message))

\* initConversation: the memories map with an entry for conversationId
initConversation(memories, conversationId) ==
  IF conversationId \in DOMAIN memories THEN memories
  ELSE (conversationId :> EmptyMemory) @@ memories

\* a memory that stores the messages and mines none (the variant
\* MemoryUpdatedWhenPassed excludes)
updateMemoryUnmined(memories, conversationId, message) ==
  LET stored(known) == [known EXCEPT ![conversationId].messages = Append(@, message)]
  IN  stored(initConversation(memories, conversationId))

\* updateMemory: the memories map after the message has been recorded
updateMemory(memories, conversationId, message) ==
  LET updated(memory) ==
        [messages |-> Append(memory.messages, message),
         userPreferences |->
           IF message.role = "user"
           THEN extractPreferences(message.text, memory.userPreferences)
           ELSE memory.userPreferences,
         mentionedLocations |->
           IF message.role = "user"
           THEN union(memory.mentionedLocations, extractLocations(message.text))
           ELSE memory.mentionedLocations]
      recorded(known) == [known EXCEPT ![conversationId] = updated(@)]
  IN  recorded(initConversation(memories, conversationId))

\* array.slice(-n)
lastOf(xs, n) == IF Len(xs) <= n THEN xs ELSE SubSeq(xs, Len(xs) - n + 1, Len(xs))

\* array.join(sep)
RECURSIVE join(_, _)
join(xs, sep) ==
  IF xs = <<>> THEN ""
  ELSE IF Len(xs) = 1 THEN xs[1]
  ELSE xs[1] \o sep \o join(Tail(xs), sep)

\* getContextString for a conversation that has a memory
getContextString(memory) ==
  LET contextParts ==
        (IF memory.userPreferences.budget # Null
         THEN <<"User Budget Level: " \o memory.userPreferences.budget>> ELSE <<>>)
        \o (IF memory.userPreferences.interests # <<>>
            THEN <<"User Interests: " \o join(memory.userPreferences.interests, ", ")>>
            ELSE <<>>)
        \o (IF memory.userPreferences.dietaryRestrictions # <<>>
            THEN <<"Dietary Restrictions: "
                     \o join(memory.userPreferences.dietaryRestrictions, ", ")>>
            ELSE <<>>)
        \o (IF memory.mentionedLocations # <<>>
            THEN <<"Previously Discussed Locations: "
                     \o join(lastOf(memory.mentionedLocations, 5), ", ")>>
            ELSE <<>>)
  IN  IF contextParts # <<>>
      THEN "\n\nUser Profile & Context:\n" \o join(contextParts, "\n")
      ELSE ""

(***************************************************************************)
(* State.  Each component has its own variables; a specification of one    *)
(* component leaves the others in their idle state.                        *)
(***************************************************************************)
VARIABLES
  rawReply,         \* the text SystemLeakageCleaner.clean is given
  cleaned,          \* the results of the successive clean calls
  generated,        \* the text the detector is given
  weatherContext,   \* the context the detector is given
  stated,           \* the number the generated text states, or <<>>
  detected,         \* <<>> or the result of detectHallucinations
  weatherIssues,    \* <<>> or the result of checkWeatherContradictions
  repaired,         \* <<>> or the result of fixHallucinations
  validated,        \* <<>> or the autoFix flag and result of validateResponse
  asked,            \* the message the extraction functions are given
  turns,            \* the conversation they are given
  weekdayNow,       \* new Date().getDay(): 0 is Sunday
  dayInfo,          \* <<>> or the result of extractDayInfo
  clarification,    \* <<>> or the result of needsClarification
  cityFound,        \* <<>> or the result of extractCityName
  config,           \* process.env: are OPENWEATHER_KEY and LLM_API_URL set
  conversations,    \* the Map conversations: id -> the messages stored under it
  memory,           \* ConversationManager's Map: id -> ConversationMemory
  requests,         \* the POST /chat requests received so far, in order of arrival
  weatherCalls,     \* the calls of getWeatherForecast so far
  llmCalls,         \* the calls of callLLM so far
  userPreferences,  \* the preferences extractPreferences is given
  updatedPreferences \* <<>> or the result of extractPreferences

cleanerVars == <<rawReply, cleaned>>
detectorVars ==
  <<generated, weatherContext, stated, detected, weatherIssues, repaired, validated>>
gateVars == <<asked, turns, weekdayNow, dayInfo, clarification, cityFound>>

serverVars == <<config, conversations, memory, requests, weatherCalls, llmCalls>>

preferenceVars == <<userPreferences, updatedPreferences>>

vars == <<cleanerVars, detectorVars, gateVars, serverVars, preferenceVars>>

CleanerIdle == rawReply = "" /\ cleaned = <<>>
DetectorIdle ==
  /\ generated = ""
  /\ weatherContext = NullContext
  /\ stated = <<>>
  /\ detected = <<>>
  /\ weatherIssues = <<>>
  /\ repaired = <<>>
  /\ validated = <<>>
GateIdle ==
  /\ asked = ""
  /\ turns = <<>>
  /\ weekdayNow = 0
  /\ dayInfo = <<>>
  /\ clarification = <<>>
  /\ cityFound = <<>>

ServerIdle ==
  /\ config = [weatherKey |-> FALSE, llmUrl |-> FALSE]
  /\ conversations = <<>>
  /\ memory = <<>>
  /\ requests = <<>>
  /\ weatherCalls = <<>>
  /\ llmCalls = <<>>

PreferencesIdle == userPreferences = NoPreferences /\ updatedPreferences = <<>>

\* the texts made of at most n of the fragments F, joined by sep
RECURSIVE Joined(_, _, _)
Joined(F, n, sep) ==
  IF n = 0 THEN {""}
  ELSE LET shorter == Joined(F, n - 1, sep)
       IN  shorter \cup {(IF t = "" THEN "" ELSE t \o sep) \o f : t \in shorter, f \in F}

(***************************************************************************)
(* The cleaner alone: clean is applied to a reply, and again to its own    *)
(* result.                                                                 *)
(***************************************************************************)
MaxCleanFragments == 3
MaxCleanRuns == 2

CleanFragments == {"a", " ", "\n", "1.", ":", "*", BULLET, "Plan:", "Sources:"}

InitClean ==
  /\ rawReply \in Joined(CleanFragments, MaxCleanFragments, "")
  /\ cleaned = <<>>
  /\ DetectorIdle
  /\ GateIdle
  /\ ServerIdle
  /\ PreferencesIdle

Clean ==
  /\ Len(cleaned) < MaxCleanRuns
  /\ cleaned' = Append(cleaned,
                       clean(IF cleaned = <<>> THEN rawReply
                             ELSE cleaned[Len(cleaned)]))
  /\ UNCHANGED <<rawReply, detectorVars, gateVars, serverVars, preferenceVars>>

NextClean == Clean

SpecClean == InitClean /\ [][NextClean]_vars

\* C1: clean is idempotent: cleaning a cleaned text gives the same text again,
\* clean(clean(x)) = clean(x) for every input x
CleanIdempotent == Len(cleaned) >= 2 => cleaned[2] = cleaned[1]

\* C27 as stated: the output of clean holds no emphasis markup, whatever the
\* input: no bold marker '**' and no italic marker '*' is left in it
NoEmphasisSurvives == \A k \in 1..Len(cleaned) : ~Includes(cleaned[k], "*")

(***************************************************************************)
(* The detector alone: a generated text is analysed, repaired from the     *)
(* issues found, and validated under either autoFix setting.               *)
(***************************************************************************)
MaxSentences == 2

ScenarioC == "It's exactly $123.45 at 3:45 PM, guaranteed"

Sentences ==
  { ScenarioC,
    "Expect 23^C and rain",
    "the tour starts 9:30 AM, always",
    "it is typically sunny",
    "precisely 40% chance of rain, never more" }

Contexts == {NullContext, WeatherContext(184, 45), WeatherContext(265, 40)}

InitDetect ==
  /\ generated \in Joined(Sentences, MaxSentences, ". ")
  /\ weatherContext \in Contexts
  /\ stated = <<>>
  /\ detected = <<>>
  /\ weatherIssues = <<>>
  /\ repaired = <<>>
  /\ validated = <<>>
  /\ CleanerIdle
  /\ GateIdle
  /\ ServerIdle
  /\ PreferencesIdle

Detect ==
  /\ detected = <<>>
  /\ detected' = <<detectHallucinations(generated, weatherContext)>>
  /\ UNCHANGED <<generated, weatherContext, stated, weatherIssues, repaired, validated,
                 cleanerVars, gateVars, serverVars, preferenceVars>>

Fix ==
  /\ detected # <<>>
  /\ repaired = <<>>
  /\ repaired' = <<fixHallucinations(generated, detected[1].issues)>>
  /\ UNCHANGED <<generated, weatherContext, stated, detected, weatherIssues,
                 validated, cleanerVars, gateVars, serverVars, preferenceVars>>

Validate ==
  /\ repaired # <<>>
  /\ validated = <<>>
  /\ \E autoFix \in BOOLEAN :
       validated' = <<[autoFix |-> autoFix,
                        result |-> validateResponse(generated, weatherContext,
                                                    autoFix)]>>
  /\ UNCHANGED <<generated, weatherContext, stated, detected, weatherIssues, repaired,
                 cleanerVars, gateVars, serverVars, preferenceVars>>

NextDetect == Detect \/ Fix \/ Validate

SpecDetect == InitDetect /\ [][NextDetect]_vars

\* C2: the confidence detectHallucinations returns is an integer from 0 to 65,
\* whatever the text and the context and however many rules match
ConfidenceInRange == detected # <<>> => detected[1].confidence \in 0..65

\* the rules add up to more than 65 and the detector has answered 65
ConfidenceCapped ==
  /\ detected # <<>>
  /\ rawConfidence(generated, weatherContext) > 65
  /\ detected[1].confidence = 65

\* the issues of the detection that begin with the words given
IssuesSaying(words) ==
  {k \in 1..Len(detected[1].issues) : StartsAt(detected[1].issues[k], 1, words)}

OverlySpecific == IssuesSaying("Overly specific claim: ")
Contradictions == IssuesSaying("Temperature ") \cup IssuesSaying("Rain probability ")

\* C24: when weather context is present the contradiction findings add
\* issues and never change the confidence, which is 5 for every overly
\* specific claim found, capped at 65; every issue is one of the two kinds.
ContradictionsUnscored ==
  (detected # <<>> /\ HasWeather(weatherContext)) =>
    /\ detected[1].confidence = Min({5 * Cardinality(OverlySpecific), 65})
    /\ OverlySpecific \cup Contradictions = 1..Len(detected[1].issues)
    /\ detected[1].suspicious <=> detected[1].issues # <<>>

\* the text states a temperature that the forecast contradicts, two of its
\* claims are overly specific, and the confidence is 10
ContradictionsReported ==
  /\ detected # <<>>
  /\ HasWeather(weatherContext)
  /\ Cardinality(Contradictions) = 1
  /\ Cardinality(OverlySpecific) = 2
  /\ detected[1].confidence = 10

IsScenarioC == generated = ScenarioC /\ weatherContext = NullContext

\* C3 as stated: for Scenario C without context the detected confidence is at
\* least 30, and validateResponse with autoFix returns a repaired text in
\* which 'exactly $123.45' has become an approximate, rounded amount and
\* 'guaranteed' has become 'likely'
ScenarioCAsStated ==
  IsScenarioC =>
    /\ detected # <<>> => detected[1].confidence >= 30
    /\ (validated # <<>> /\ validated[1].autoFix) =>
         /\ ~Includes(validated[1].result.response, "exactly $123.45")
         /\ Includes(validated[1].result.response, "approximately")
         /\ ~Includes(validated[1].result.response, "guaranteed")
         /\ Includes(validated[1].result.response, "likely")

\* C3: for Scenario C without context detectHallucinations finds four overly
\* specific claims and returns confidence 20; fixHallucinations, given the text
\* and those issues, turns 'exactly $123.45' into 'approximately around $120'
\* and 'guaranteed' into 'likely'; validateResponse, the confidence being
\* below 30, returns the text unchanged, valid and not fixed, with or without
\* autoFix
ScenarioCAsBuilt ==
  IsScenarioC =>
    /\ detected # <<>> =>
         /\ detected[1].suspicious
         /\ Len(detected[1].issues) = 4
         /\ detected[1].confidence = 20
    /\ repaired # <<>> =>
         repaired[1] = "It's approximately around $120 around 3:45 PM, likely"
    /\ validated # <<>> =>
         /\ validated[1].result.response = ScenarioC
         /\ validated[1].result.valid
         /\ ~validated[1].result.wasFixed
         /\ validated[1].result.confidence = 20

\* Scenario C has been analysed, repaired and validated with autoFix
ScenarioCValidated ==
  IsScenarioC /\ detected # <<>> /\ repaired # <<>> /\ validated # <<>>
    /\ validated[1].autoFix

\* C10: validateResponse returns the text unchanged and valid when the
\* detected confidence is below 30; when it is from 30 to 65 and autoFix is
\* requested, it returns fixHallucinations(text, issues), valid, wasFixed, and
\* reports the issues
ValidationPolicy ==
  (detected # <<>> /\ validated # <<>>) =>
    /\ detected[1].confidence < 30 =>
         /\ validated[1].result.response = generated
         /\ validated[1].result.valid
    /\ (detected[1].confidence >= 30 /\ detected[1].confidence <= 65
          /\ validated[1].autoFix) =>
         /\ validated[1].result.response = repaired[1]
         /\ validated[1].result.valid
         /\ validated[1].result.wasFixed
         /\ validated[1].result.issues = detected[1].issues
         /\ validated[1].result.issues # <<>>

\* a text of confidence 30 or more has been validated with autoFix and has
\* come back changed
RepairedByValidation ==
  /\ detected # <<>>
  /\ validated # <<>>
  /\ detected[1].confidence >= 30
  /\ validated[1].autoFix
  /\ validated[1].result.response # generated

(***************************************************************************)
(* The contradiction check alone: a text that states one temperature or    *)
(* one rain probability is compared with the forecast.                     *)
(***************************************************************************)
MaxDegrees == 5
MaxRainPoints == 12

\* the text that states the number n as a temperature or as a rain probability
StatedText(kind, n) ==
  IF kind = "temperature" THEN "Expect " \o NumToStr(n) \o DEGREE \o "C at noon"
  ELSE "There is a " \o NumToStr(n) \o "% chance of rain"

InitTolerance ==
  /\ \/ \E t \in -MaxDegrees..MaxDegrees, avg \in -MaxDegrees..MaxDegrees :
          /\ stated = <<[kind |-> "temperature", value |-> t]>>
          /\ weatherContext = WeatherContext(10 * avg, 50)
     \/ \E r \in 0..MaxRainPoints, actual \in 0..MaxRainPoints :
          /\ stated = <<[kind |-> "rain", value |-> r]>>
          /\ weatherContext = WeatherContext(200, actual)
  /\ generated = StatedText(stated[1].kind, stated[1].value)
  /\ detected = <<>>
  /\ weatherIssues = <<>>
  /\ repaired = <<>>
  /\ validated = <<>>
  /\ CleanerIdle
  /\ GateIdle
  /\ ServerIdle
  /\ PreferencesIdle

CheckWeather ==
  /\ weatherIssues = <<>>
  /\ weatherIssues' = <<checkWeatherContradictions(generated, weatherContext.weather)>>
  /\ UNCHANGED <<generated, weatherContext, stated, detected, repaired, validated,
                 cleanerVars, gateVars, serverVars, preferenceVars>>

NextTolerance == CheckWeather

SpecTolerance == InitTolerance /\ [][NextTolerance]_vars

\* the distance between the stated number and the forecast's
StatedDistance ==
  LET of(a, b) == IF a > b THEN a - b ELSE b - a
  IN  IF stated[1].kind = "temperature"
      THEN of(stated[1].value, RoundTenths(weatherContext.weather.temp_avg10))
      ELSE of(stated[1].value, weatherContext.weather.rain_probability)

\* C9: with weather context present, a stated temperature that differs from
\* the context temperature by exactly 3 degrees produces no contradiction
\* issue and one that differs by 4 produces one; a stated rain probability
\* that differs by exactly 10 points produces none and by 11 produces one
ToleranceBoundary ==
  weatherIssues # <<>> =>
    /\ (stated[1].kind = "temperature" /\ StatedDistance = 3) => weatherIssues[1] = <<>>
    /\ (stated[1].kind = "temperature" /\ StatedDistance = 4) => weatherIssues[1] # <<>>
    /\ (stated[1].kind = "rain" /\ StatedDistance = 10) => weatherIssues[1] = <<>>
    /\ (stated[1].kind = "rain" /\ StatedDistance = 11) => weatherIssues[1] # <<>>

(***************************************************************************)
(* extractDayInfo alone: a message that names a weekday, on each weekday.  *)
(***************************************************************************)
\* the words of the weekdays array
WeekdayNames == {weekdays[k][1] : k \in 1..Len(weekdays)}

DayQueries ==
  {pre \o day \o post :
     pre \in {"weather in Paris on ", "What about "},
     day \in WeekdayNames \cup {"the weekend", "the day after tomorrow"},
     post \in {"", "?", " or today?", " and not tomorrow"}}

InitDay ==
  /\ asked \in DayQueries
  /\ weekdayNow \in 0..6
  /\ turns = <<>>
  /\ dayInfo = <<>>
  /\ clarification = <<>>
  /\ cityFound = <<>>
  /\ CleanerIdle
  /\ DetectorIdle
  /\ ServerIdle
  /\ PreferencesIdle

ExtractDay ==
  /\ dayInfo = <<>>
  /\ dayInfo' = <<extractDayInfo(asked, weekdayNow)>>
  /\ UNCHANGED <<asked, turns, weekdayNow, clarification, cityFound, cleanerVars,
                 detectorVars, serverVars, preferenceVars>>

NextDay == ExtractDay

SpecDay == InitDay /\ [][NextDay]_vars

\* the day numbers of the weekday words the message contains
NamedDays ==
  {weekdays[k][2] : k \in {j \in 1..Len(weekdays) :
                             Includes(ToLower(asked), weekdays[j][1])}}

SaysTomorrow ==
  Includes(ToLower(asked), "tomorrow") \/ Includes(ToLower(asked), "tommorow")
SaysToday == Includes(ToLower(asked), "today")

\* C4 as stated: on a message that names a weekday extractDayInfo returns
\* daysAhead from 1 to 7, and 7 only when the named weekday is the current one
WeekdayOffsetAsStated ==
  (dayInfo # <<>> /\ NamedDays # {}) =>
    /\ dayInfo[1].daysAhead \in 1..7
    /\ dayInfo[1].daysAhead = 7 => weekdayNow \in NamedDays

\* C4: on a message that names a weekday and says neither 'today' nor
\* 'tomorrow' extractDayInfo returns the days until the next such weekday:
\* from 1 to 7, and 7 exactly when the named weekday is the current one; a
\* message that says 'tomorrow' gets 1 and one that says 'today' gets 0,
\* whatever weekday it names
WeekdayOffsetLaw ==
  dayInfo # <<>> =>
    /\ (NamedDays # {} /\ ~SaysTomorrow /\ ~SaysToday) =>
         \E d \in NamedDays :
            /\ dayInfo[1].daysAhead = ((d - weekdayNow + 6) % 7) + 1
            /\ dayInfo[1].daysAhead \in 1..7
            /\ dayInfo[1].daysAhead = 7 <=> d = weekdayNow
    /\ SaysTomorrow => dayInfo[1].daysAhead = 1
    /\ (SaysToday /\ ~SaysTomorrow) => dayInfo[1].daysAhead = 0

\* the current weekday has been named, alone, and the offset is 7
SameWeekdayNamed ==
  /\ dayInfo # <<>>
  /\ NamedDays = {weekdayNow}
  /\ ~SaysTomorrow /\ ~SaysToday
  /\ dayInfo[1].daysAhead = 7

\* C18 as stated: for every message that contains the phrase 'day after
\* tomorrow' extractDayInfo returns the target day 'day after tomorrow', 2
\* days ahead.
DayAfterTomorrowIsTwo ==
  (dayInfo # <<>> /\ Includes(ToLower(asked), "day after tomorrow"))
    => dayInfo[1] = DayInfo("day after tomorrow", 2)

(***************************************************************************)
(* The clarification gate alone: a message and the conversation before it. *)
(* The conversations are runs of small talk in which at most one message   *)
(* is of another kind, at any position.                                    *)
(***************************************************************************)
MaxTurns == 11

SmallTalk(k) ==
  IF k % 2 = 1 THEN Message("user", "tell me more") ELSE Message("assistant", "Gladly.")

\* the messages that stand out: two that name a city, the gate's question
\* about a day (it names none) and its question about the weather
Marked ==
  { Message("user", "weather in Paris tomorrow"),
    Message("assistant", "Rome is lovely in spring."),
    Message("assistant", AskDayCity),
    Message("assistant", AskWeatherCity) }

Conversation(n, p, marked) == [k \in 1..n |-> IF k = p THEN marked ELSE SmallTalk(k)]

Conversations ==
  {Conversation(n, 0, SmallTalk(1)) : n \in 0..MaxTurns}
    \cup {Conversation(n, p, m) : n \in 1..MaxTurns, p \in 1..MaxTurns, m \in Marked}

GateQueries ==
  { "is it nice there?", "what's the weather there?", "there!", "it.",
    "tell me about that place", "what about friday?", "Paris", "ok!" }

InitGate ==
  /\ asked \in GateQueries
  /\ turns \in Conversations
  /\ weekdayNow = 0
  /\ dayInfo = <<>>
  /\ clarification = <<>>
  /\ cityFound = <<>>
  /\ CleanerIdle
  /\ DetectorIdle
  /\ ServerIdle
  /\ PreferencesIdle

Gate ==
  /\ clarification = <<>>
  /\ clarification' = <<needsClarification(asked, turns)>>
  /\ UNCHANGED <<asked, turns, weekdayNow, dayInfo, cityFound, cleanerVars,
                 detectorVars, serverVars, preferenceVars>>

NextGate == Gate

SpecGate == InitGate /\ [][NextGate]_vars

\* the message contains 'there', 'that place', 'this city' or 'it' and names
\* no city itself
PronounOnly ==
  Test(pronounPattern, ToLower(asked)) /\ extractCityFromText(asked) = Null

\* one of the last 10 messages of the conversation names a city
CityInLastTen ==
  \E k \in 1..Len(turns) :
     k > Len(turns) - 10 /\ extractCityFromText(turns[k].text) # Null

\* C7 as stated: for a pronoun-only message needsClarification returns a
\* clarification request if and only if no city can be resolved from the last
\* 10 messages of the conversation
PronounGateAsStated ==
  (clarification # <<>> /\ PronounOnly) =>
    (clarification[1] # Null <=> ~CityInLastTen)

\* C7: for a pronoun-only message needsClarification asks which city (or
\* which location) is meant if and only if no city can be resolved from the
\* last 10 messages of the conversation; when one can, it returns null or,
\* for a message that is too short (at most two words, no '?', no weekday, not
\* plain lower-case words) while the last reply did not ask 'which city',
\* the request for more details
PronounGate ==
  (clarification # <<>> /\ PronounOnly) =>
    /\ clarification[1] \in {AskWeatherCity, AskWhichLocation} <=> ~CityInLastTen
    /\ CityInLastTen => clarification[1] \in {Null, AskDetails}
    /\ (CityInLastTen /\ clarification[1] = AskDetails) =>
         /\ splitCount(ToLower(asked)) <= 2
         /\ ~Includes(asked, "?")
         /\ ~lastAssistantAskedCity(turns)

\* the only city of the conversation is in its first message, eleven messages
\* back, and the gate has asked which location is meant
CityOutOfReach ==
  /\ clarification # <<>>
  /\ PronounOnly
  /\ Len(turns) > 10
  /\ extractCityFromText(turns[1].text) # Null
  /\ ~CityInLastTen
  /\ clarification[1] = AskWhichLocation

\* the message has at most two words, no '?' and no weekday name
ShortStatement ==
  /\ splitCount(ToLower(asked)) <= 2
  /\ ~Includes(asked, "?")
  /\ ~Test(WeekdayWord, ToLower(asked))

\* an earlier rule of the gate matched the message: the day-only rule, or one
\* of the rules that ask which city or for more context
EarlierRule ==
  \/ Test(dayOnlyPattern, ToLower(asked))
  \/ clarification[1] \in {AskDayCity, AskWeatherCity, AskWhichLocation,
                            AskWeatherCityNoRef, AskContext}

\* the most recent assistant message of the conversation asks 'which city'
LastReplyAsksCity ==
  \E k \in 1..Len(turns) :
    /\ turns[k].role = "assistant"
    /\ \A j \in (k + 1)..Len(turns) : turns[j].role # "assistant"
    /\ Includes(ToLower(turns[k].text), "which city")

\* the message is one word of letters, or two separated by white space
PlainWords ==
  Test(Cat(<<Bos, Plus(Cls(Letters)), Opt(Cat(<<Plus(Sp), Plus(Cls(Letters))>>)), Eos>>),
       asked)

\* C19 as stated: for a message of at most two words with no '?' and no
\* weekday name that matched no earlier rule, needsClarification asks for
\* more details, unless the most recent assistant message asked 'which
\* city', in which case it returns null.
TooShortAsStated ==
  (clarification # <<>> /\ ShortStatement /\ ~EarlierRule) =>
    clarification[1] = IF LastReplyAsksCity THEN Null ELSE AskDetails

\* C19: for a message of at most two words with no '?' and no weekday name
\* that matched no earlier rule, needsClarification returns null when the
\* message is one or two words made of letters only; otherwise it asks for
\* more details, unless the most recent assistant message asked 'which
\* city', in which case it returns null.
TooShortGate ==
  (clarification # <<>> /\ ShortStatement /\ ~EarlierRule) =>
    clarification[1] = IF PlainWords \/ LastReplyAsksCity THEN Null ELSE AskDetails

\* "ok!" after the gate's question about the city is let pass, and so is
\* "there!" when a city is known
TooShortAnswersCity ==
  /\ clarification = <<Null>>
  /\ asked \in {"ok!", "there!"}
  /\ ShortStatement /\ ~EarlierRule /\ ~PlainWords
  /\ LastReplyAsksCity

(***************************************************************************)
(* extractCityName alone: a message and the conversation before it, which  *)
(* may name two cities.                                                    *)
(***************************************************************************)
CityQueries ==
  { "is it nice there?", "what about friday?", "is it nice in Paris?", "Rome",
    "tell me more" }

\* a conversation of n messages that names Paris in message p and Rome in
\* message q
TwoCities(n, p, q) ==
  [k \in 1..n |->
     IF k = p THEN Message("user", "weather in Paris tomorrow")
     ELSE IF k = q THEN Message("assistant", "Rome is lovely in spring.")
     ELSE SmallTalk(k)]

CityConversations ==
  Conversations
    \cup {TwoCities(n, p, q) :
            n \in {MaxTurns - 1, MaxTurns}, p \in 1..MaxTurns, q \in 1..MaxTurns}

InitCity ==
  /\ asked \in CityQueries
  /\ turns \in CityConversations
  /\ weekdayNow = 0
  /\ dayInfo = <<>>
  /\ clarification = <<>>
  /\ cityFound = <<>>
  /\ CleanerIdle
  /\ DetectorIdle
  /\ ServerIdle
  /\ PreferencesIdle

ExtractCity ==
  /\ cityFound = <<>>
  /\ cityFound' = <<extractCityName(asked, turns)>>
  /\ UNCHANGED <<asked, turns, weekdayNow, dayInfo, clarification, cleanerVars,
                 detectorVars, serverVars, preferenceVars>>

NextCity == ExtractCity

SpecCity == InitCity /\ [][NextCity]_vars

\* the message is contextual: it has a pronoun reference or is a day-only
\* follow-up
Contextual == Test(contextualReferences, asked) \/ Test(dayOnlyPattern, asked)

\* the positions of the last 10 messages of the conversation from which a
\* city can be extracted
RecentWithCity ==
  {k \in 1..Len(turns) :
     k > Len(turns) - 10 /\ extractCityFromText(turns[k].text) # Null}

\* C25: for a contextual message (pronoun reference or day-only follow-up)
\* and a conversation that is not empty, extractCityName returns the city of
\* the newest of the last 10 messages from which a city can be extracted,
\* and never an older message's city; when none of the 10 has a city it
\* returns what the message itself yields.
NewestCityWins ==
  (cityFound # <<>> /\ Contextual /\ turns # <<>>) =>
    cityFound[1] = IF RecentWithCity # {}
                   THEN extractCityFromText(turns[Max(RecentWithCity)].text)
                   ELSE extractCityFromText(asked)

\* Paris is named before Rome in the last 10 messages, an earlier city is out
\* of reach or absent, and "is it nice there?" is about Rome
NewerCityFound ==
  /\ cityFound = <<"Rome">>
  /\ asked = "is it nice there?"
  /\ Cardinality(RecentWithCity) = 2
  /\ extractCityFromText(turns[Min(RecentWithCity)].text) = "Paris"

\* the curated cities the message names, by their place in the list
NamedCities ==
  {k \in 1..Len(knownCities) : hasWord(ToLower(asked), knownCitiesLower[k])}

\* C29 as stated: when the message itself names a city of the curated list,
\* extractCityName returns that city whatever the conversation holds, also
\* when the message has a contextual word such as 'it' or 'there'.
NamedCityWins ==
  (cityFound # <<>> /\ NamedCities # {}) =>
    cityFound[1] = knownCities[Min(NamedCities)]

(***************************************************************************)
(* extractPreferences alone: a message and the preferences known before    *)
(* it, which are those that earlier messages can have left.                *)
(***************************************************************************)
MaxEarlierMessages == 2

PreferenceMessages ==
  { "hello", "I love museums", "cheap beach trip", "luxury shopping and art",
    "vegan food please", "halal restaurants", "Vegan and HALAL bars",
    "gluten free pasta" }

\* the preferences after at most n messages
RECURSIVE PreferencesAfter(_)
PreferencesAfter(n) ==
  IF n = 0 THEN {NoPreferences}
  ELSE PreferencesAfter(n - 1)
         \cup {extractPreferences(message, existing) :
                 message \in PreferenceMessages, existing \in PreferencesAfter(n - 1)}

InitPreferences ==
  /\ asked \in PreferenceMessages
  /\ userPreferences \in PreferencesAfter(MaxEarlierMessages)
  /\ updatedPreferences = <<>>
  /\ turns = <<>>
  /\ weekdayNow = 0
  /\ dayInfo = <<>>
  /\ clarification = <<>>
  /\ cityFound = <<>>
  /\ CleanerIdle
  /\ DetectorIdle
  /\ ServerIdle

ExtractPreferences ==
  /\ updatedPreferences = <<>>
  /\ updatedPreferences' = <<extractPreferences(asked, userPreferences)>>
  /\ UNCHANGED <<userPreferences, cleanerVars, detectorVars, gateVars, serverVars>>

NextPreferences == ExtractPreferences

SpecPreferences == InitPreferences /\ [][NextPreferences]_vars

\* C17 as stated: extractPreferences never removes a tag: the resulting
\* interest tags and the resulting dietary tags each include the existing
\* ones.
TagsNeverRemoved ==
  updatedPreferences # <<>> =>
    /\ Range(userPreferences.interests) \subseteq Range(updatedPreferences[1].interests)
    /\ Range(userPreferences.dietaryRestrictions)
         \subseteq Range(updatedPreferences[1].dietaryRestrictions)

(***************************************************************************)
(* The server (src/unnamed/part_001): POST /chat.  A request runs without  *)
(* interruption up to its next fetch: the other awaits of the handler      *)
(* (updateMemory, validateResponse, the early returns of                   *)
(* getWeatherForecast) resume in the microtask queue, before any other     *)
(* request is served.  A request is                                        *)
(*   [conversation_id, convoId, message, pc, isProbablyCityResponse,       *)
(*    clarificationNeeded, detectedCity, targetDay, daysAhead, weather,    *)
(*    externalContext, status, reply]                                      *)
(* with pc "weather" or "llm" while the fetch of getWeatherForecast or of  *)
(* callLLM is outstanding and "done" once the response is sent.  A stored  *)
(* message carries, in place of its time stamp, the number of the request  *)
(* that stored it.                                                         *)
(***************************************************************************)
MaxRequests == 2

ConversationIds == {Null, "trip"}

ChatMessages == {"", "what about monday?", "weather in Paris", "I love museums in Rome"}

\* the days of the week the server is run on: a Monday and a Wednesday
ServerWeekdays == {1, 3}

Configurations == [weatherKey : BOOLEAN, llmUrl : BOOLEAN]

\* the handler's variable weather before getWeatherForecast has returned
NotFetched == [kind |-> "none"]
\* what the fetch of getWeatherForecast comes to: null or a forecast
NoWeather == [kind |-> "null"]
BeyondForecastRange == [kind |-> "error"]
Forecast(temp_avg10, rain_probability) ==
  [kind |-> "forecast", temp_avg10 |-> temp_avg10, rain_probability |-> rain_probability]
WeatherResults == {NoWeather, Forecast(184, 45)}

\* what the fetch of callLLM comes to: a content, or "!ok" for a failed response
LLMDown == "Sorry, I'm having trouble connecting to Ollama. Make sure it's running."
NoContent == "I'm having trouble generating a response right now. Please try again."
LLMResults ==
  { "!ok", "Spring is typically mild there.",
    "**Tip:** definitely 23^C, starts 9:30 AM for $1250.75" }
callLLMContent(result) == IF result = "!ok" THEN LLMDown ELSE result

SYSTEM_PROMPT == "You are TravelGenie, a concise, helpful travel planning assistant."
stricterSystemPrompt ==
  SYSTEM_PROMPT \o "\n\nIMPORTANT: Previous response had accuracy issues. "
    \o "Only state facts you're certain about. Use 'typically', 'usually', "
    \o "'approximately', or 'around' for uncertain information. "
    \o "Never state specific prices, times, or data without a source."

WhichCityReply ==
  "I'd be happy to help with weather information! Could you please specify which city you're asking about? For example: 'weather in Paris tomorrow' or 'forecast for New York on Friday'."
BeyondRangeReply(info) ==
  "I can only provide weather forecasts up to 5 days ahead. "
    \o UpperCh(Ch(info.targetDay, 1)) \o SubSeq(info.targetDay, 2, Len(info.targetDay))
    \o " is " \o NumToStr(info.daysAhead)
    \o " days away, which is beyond my forecast range. For longer-term planning, I'd recommend checking reliable weather services closer to your travel date."
BeyondForecastRangeReply ==
  "I can only provide weather forecasts up to 5 days ahead. For longer-term planning, I'd recommend checking reliable weather services closer to your travel date. Would you like me to help with something else about your trip?"
WeatherFailureReply(city) ==
  "I'm having trouble getting current weather data for " \o city
    \o ". This could be due to the city name or a temporary API issue. Could you try rephrasing the city name, or would you like me to help with other travel planning for "
    \o city \o "?"

Stored(role, text, turn) == [role |-> role, text |-> text, turn |-> turn]

ServerContext(weather, query_day, days_ahead) ==
  [isNull |-> FALSE, weather |-> weather, query_day |-> query_day,
   days_ahead |-> days_ahead]

\* a number given in tenths, as JSON.stringify prints it
Tenths(t10) ==
  NumToStr(t10 \div 10)
    \o (IF t10 % 10 = 0 THEN "" ELSE "." \o Ch("0123456789", (t10 % 10) + 1))

\* JSON.stringify(externalContext), of the fields the model keeps
stringify(externalContext) ==
  "{\"weather\":{\"temp_avg\":" \o Tenths(externalContext.weather.temp_avg10)
    \o ",\"rain_probability\":" \o NumToStr(externalContext.weather.rain_probability)
    \o "},\"query_day\":\"" \o externalContext.query_day
    \o "\",\"days_ahead\":" \o NumToStr(externalContext.days_ahead) \o "}"

isComplexQuery(message) ==
  \/ \E indicator \in
          { "plan", "itinerary", "trip", "vacation", "holiday", "should i",
            "which is better", "compare", "recommend", "3 days", "2 days", "week in",
            "weekend", "days in", "budget", "cost", "cheap", "expensive", "vs",
            "versus", "or should" } :
        Includes(ToLower(message), indicator)
  \/ Cardinality({i \in 1..Len(message) : Ch(message, i) = ","}) + 1 > 2
  \/ Len(message) > 100

\* lines 784-806: the messages the first call of callLLM is given
llmMessages(conv, userContext, externalContext, message) ==
  LET recentMessages == lastOf(conv, 6)
      systemContent ==
        SYSTEM_PROMPT \o userContext
          \o (IF HasWeather(externalContext)
              THEN "\n\nExternalContext: " \o stringify(externalContext)
              ELSE IF isComplexQuery(message)
              THEN "\n\n[COMPLEX] \nNote: This is a complex query requiring step-by-step planning."
              ELSE "")
  IN  <<[role |-> "system", content |-> systemContent]>>
        \o [k \in 1..Len(recentMessages) |->
              [role |-> IF recentMessages[k].role = "assistant" THEN "assistant"
                        ELSE "user",
               content |-> recentMessages[k].text]]

\* lines 837-840: the messages the second call of callLLM is given
stricterMessages(messages, externalContext) ==
  <<[role |-> "system",
     content |-> stricterSystemPrompt
                   \o (IF HasWeather(externalContext)
                       THEN "\n\nExternalContext: " \o stringify(externalContext)
                       ELSE "")]>>
    \o Tail(messages)


(***************************************************************************)
(* The handler, as functions of the server's state w = [conversations,     *)
(* memory, requests, weatherCalls, llmCalls] and the number r of the       *)
(* request served.                                                         *)
(***************************************************************************)
World ==
  [conversations |-> conversations, memory |-> memory, requests |-> requests,
   weatherCalls |-> weatherCalls, llmCalls |-> llmCalls]

\* conv.push(message)
push(w, convoId, message) == [w EXCEPT !.conversations[convoId] = Append(@, message)]

\* res.status(status).json(...)
respond(w, r, status, reply) ==
  [w EXCEPT !.requests[r].pc = "done", !.requests[r].status = status,
            !.requests[r].reply = reply]

\* conv.push({role: "assistant", text: replyText}); return res.json({reply: replyText})
replyWith(w, r, replyText) ==
  respond(push(w, w.requests[r].convoId, Stored("assistant", replyText, r)), r, 200,
          replyText)

\* callLLM(llmMessages) up to its fetch: without LLM_API_URL it throws, and the
\* handler's catch answers 500
ServerError == "Sorry, something went wrong. Please try again."
callLLM(w, r) ==
  IF ~config.llmUrl THEN respond(w, r, 500, ServerError)
  ELSE [w EXCEPT !.requests[r].pc = "llm"]

\* lines 782-811: the prompt is assembled and callLLM is called
generate(w, r) ==
  callLLM([w EXCEPT !.llmCalls =
                       Append(@, [turn |-> r,
                                  messages |->
                                    llmMessages(w.conversations[w.requests[r].convoId],
                                                getContextString(
                                                  w.memory[w.requests[r].convoId]),
                                                w.requests[r].externalContext,
                                                w.requests[r].message)])],
          r)

\* lines 692-696 and 758-765: externalContext = {weather, query_day, days_ahead}
withContext(w, r, weather) ==
  [w EXCEPT !.requests[r].externalContext =
               ServerContext(weather, w.requests[r].targetDay, w.requests[r].daysAhead)]

\* lines 690-697 and 740-781: what the handler does with the result of
\* getWeatherForecast
afterForecast(w, r, weather) ==
  IF weather.kind # "forecast" /\ ~w.requests[r].isProbablyCityResponse
  THEN replyWith(w, r, IF weather.kind = "null"
                       THEN WeatherFailureReply(w.requests[r].detectedCity)
                       ELSE BeyondForecastRangeReply)
  ELSE generate(IF weather.kind = "forecast" THEN withContext(w, r, weather) ELSE w, r)

\* lines 688 and 738: const weather = await getWeatherForecast(...)
weatherResult(w, r, weather) ==
  afterForecast([w EXCEPT !.requests[r].weather = weather], r, weather)

\* getWeatherForecast from its first line to its fetch
fetchForecast(w, r) ==
  IF config.weatherKey /\ w.requests[r].daysAhead <= 5
  THEN [w EXCEPT !.requests[r].pc = "weather"]
  ELSE weatherResult(w, r, IF ~config.weatherKey THEN NoWeather
                           ELSE BeyondForecastRange)

\* the call getWeatherForecast(city, daysAhead)
getWeatherForecast(w, r) ==
  fetchForecast([w EXCEPT !.weatherCalls =
                             Append(@, [turn |-> r, city |-> w.requests[r].detectedCity,
                                        daysAhead |-> w.requests[r].daysAhead])],
                r)

\* lines 681-697: the message answers a 'which city' question
cityResponse(w, r, city) ==
  IF city # Null
  THEN getWeatherForecast([w EXCEPT !.requests[r].detectedCity = city,
                                    !.requests[r].targetDay = "today",
                                    !.requests[r].daysAhead = 0], r)
  ELSE generate(w, r)

\* a handler without the range check of lines 720-734 (the variant BeyondRange
\* excludes)
forecastForAnyDay(w, r, info) ==
  getWeatherForecast([w EXCEPT !.requests[r].targetDay = info.targetDay,
                               !.requests[r].daysAhead = info.daysAhead], r)

\* lines 717-738: the day asked for, and the forecast range
forecastFor(w, r, info) ==
  IF info.daysAhead > 5 THEN replyWith(w, r, BeyondRangeReply(info))
  ELSE getWeatherForecast([w EXCEPT !.requests[r].targetDay = info.targetDay,
                                    !.requests[r].daysAhead = info.daysAhead], r)

\* lines 698-716: the message needs weather data
external(w, r, city) ==
  IF city = Null THEN replyWith(w, r, WhichCityReply)
  ELSE forecastFor([w EXCEPT !.requests[r].detectedCity = city], r,
                   extractDayInfo(w.requests[r].message, weekdayNow))

\* lines 681-700: the city of the message, on either path
resolved(w, r, city) ==
  IF w.requests[r].isProbablyCityResponse THEN cityResponse(w, r, city)
  ELSE external(w, r, city)

\* a handler that looks up the city of every message (the variant
\* ForecastWhenAsked excludes)
acceptedAny(w, r) ==
  resolved(w, r, extractCityName(w.requests[r].message,
                                 w.conversations[w.requests[r].convoId]))

\* lines 676-781
accepted(w, r) ==
  IF w.requests[r].isProbablyCityResponse \/ needsExternal(w.requests[r].message)
  THEN resolved(w, r, extractCityName(w.requests[r].message,
                                      w.conversations[w.requests[r].convoId]))
  ELSE generate(w, r)

\* a handler that goes on whatever the gate asks (the variant DayOnlyGate
\* excludes)
storedUngated(w, r, clarificationNeeded) ==
  accepted([w EXCEPT !.memory =
                        updateMemory(@, w.requests[r].convoId,
                                     Stored("user", w.requests[r].message, r))],
           r)

\* lines 661-675: the gate's question, if any, answers the message; else the
\* message is recorded in the memory
stored(w, r, clarificationNeeded) ==
  IF clarificationNeeded # Null THEN replyWith(w, r, clarificationNeeded)
  ELSE accepted([w EXCEPT !.memory =
                             updateMemory(@, w.requests[r].convoId,
                                          Stored("user", w.requests[r].message, r))],
                r)

\* lines 654-660: the gate's answer is kept, and conv.push(userMessage)
gated(w, r, clarificationNeeded) ==
  stored(push([w EXCEPT !.requests[r].clarificationNeeded = clarificationNeeded],
              w.requests[r].convoId, Stored("user", w.requests[r].message, r)),
         r, clarificationNeeded)

\* lines 640-643
opened(w, convoId) ==
  IF convoId \in DOMAIN w.conversations THEN w
  ELSE [w EXCEPT !.conversations = (convoId :> <<>>) @@ @,
                 !.memory = initConversation(@, convoId)]

NewRequest(conversation_id, message) ==
  [conversation_id |-> conversation_id,
   convoId |-> IF conversation_id = Null THEN "default" ELSE conversation_id,
   message |-> message, pc |-> "done", isProbablyCityResponse |-> FALSE,
   clarificationNeeded |-> Null, detectedCity |-> Null, targetDay |-> Null, daysAhead |-> Null,
   weather |-> NotFetched, externalContext |-> NullContext, status |-> 0,
   reply |-> Null]

\* line 654: the gate is asked unless the last reply asked 'which city'
\* a handler that asks the gate about every message
asksAlways(w, request, isProbablyCityResponse) ==
  gated([w EXCEPT !.requests =
                     Append(@, [request EXCEPT
                                  !.pc = "chat",
                                  !.isProbablyCityResponse = isProbablyCityResponse])],
        Len(w.requests) + 1,
        needsClarification(request.message, w.conversations[request.convoId]))

asks(w, request, isProbablyCityResponse) ==
  gated([w EXCEPT !.requests =
                     Append(@, [request EXCEPT
                                  !.pc = "chat",
                                  !.isProbablyCityResponse = isProbablyCityResponse])],
        Len(w.requests) + 1,
        IF isProbablyCityResponse THEN Null
        ELSE needsClarification(request.message, w.conversations[request.convoId]))

\* lines 645-653
arrived(w, request) ==
  asks(w, request,
       Len(w.conversations[request.convoId]) > 0
         /\ lastAssistantAskedCity(w.conversations[request.convoId]))

\* a handler that opens the conversation before it looks at the message (the
\* variant RejectedChangesNothing excludes)
chatOpenedFirst(w, conversation_id, message) ==
  IF message = ""
  THEN [opened(w, NewRequest(conversation_id, message).convoId) EXCEPT
          !.requests = Append(@, [NewRequest(conversation_id, message) EXCEPT
                                    !.status = 400])]
  ELSE arrived(opened(w, NewRequest(conversation_id, message).convoId),
               NewRequest(conversation_id, message))

\* lines 628-643: the handler from the arrival of the request
chat(w, conversation_id, message) ==
  IF message = ""
  THEN [w EXCEPT !.requests =
                    Append(@, [NewRequest(conversation_id, message) EXCEPT
                                 !.status = 400])]
  ELSE arrived(opened(w, NewRequest(conversation_id, message).convoId),
               NewRequest(conversation_id, message))

\* a handler that regenerates whenever the validation finds issues (the
\* variant RegenerationUnreachable excludes)
regeneratesOnIssues(validation) == validation.hasIssues

\* lines 828-829
regenerates(validation) == ~validation.valid /\ validation.confidence > 70

\* a handler that sends the generated reply without recording it in the memory
\* (the variant RepliesStored excludes)
recordedNowhere(w, r, assistantMessage) == respond(w, r, 200, assistantMessage.text)

\* lines 873-885: the reply is recorded in the memory and sent
recorded(w, r, assistantMessage) ==
  respond([w EXCEPT !.memory =
                       updateMemory(@, w.requests[r].convoId, assistantMessage)],
          r, 200, assistantMessage.text)

\* lines 866-871: conv.push(assistantMessage)
answer(w, r, assistantText) ==
  recorded(push(w, w.requests[r].convoId, Stored("assistant", assistantText, r)), r,
           Stored("assistant", assistantText, r))

\* the call of callLLM that request r made
firstCall(w, r) == w.llmCalls[Min({k \in 1..Len(w.llmCalls) : w.llmCalls[k].turn = r})]

\* lines 830-840: callLLM(stricterMessages)
retried(w, r) ==
  [w EXCEPT !.llmCalls =
               Append(@, [turn |-> r,
                          messages |->
                            stricterMessages(firstCall(w, r).messages,
                                             w.requests[r].externalContext)])]

\* a handler that regenerates again after the regeneration (the variant
\* RegeneratedOnce excludes)
validatedReplyAgain(w, r, validation, retry) ==
  answer(IF regenerates(validation) THEN retried(retried(w, r), r) ELSE w, r,
         IF regenerates(validation)
         THEN validateResponse(IF callLLMContent(retry) = "" THEN validation.assistantText
                               ELSE callLLMContent(retry),
                               w.requests[r].externalContext, TRUE).response
         ELSE validation.response)

\* lines 828-863: the validated text, or the validated text of a second call
validatedReply(w, r, validation, retry) ==
  answer(IF regenerates(validation) THEN retried(w, r) ELSE w, r,
         IF regenerates(validation)
         THEN validateResponse(IF callLLMContent(retry) = "" THEN validation.assistantText
                               ELSE callLLMContent(retry),
                               w.requests[r].externalContext, TRUE).response
         ELSE validation.response)

\* lines 822-826: the validation of assistantText, kept with the text itself
checked(assistantText, externalContext) ==
  ("assistantText" :> assistantText)
    @@ validateResponse(assistantText, externalContext, TRUE)

\* a handler that validates the content first and cleans the validated text
\* (the variant CleanedBeforeValidation excludes)
validatedThenCleaned(externalContext, result) ==
  LET normalized(validation) ==
        ("assistantText" :> validation.response)
          @@ [validation EXCEPT !.response = clean(@)]
  IN  normalized(validateResponse(IF callLLMContent(result) = "" THEN NoContent
                                  ELSE callLLMContent(result),
                                  externalContext, TRUE))

\* lines 817-826: the content of the reply, cleaned and validated
validated1(externalContext, result) ==
  checked(clean(IF callLLMContent(result) = "" THEN NoContent
                ELSE callLLMContent(result)),
          externalContext)

(***************************************************************************)
(* The server as a state machine: requests arrive, and the fetches of the  *)
(* outstanding requests complete, in any order.                            *)
(***************************************************************************)
Init ==
  /\ config \in Configurations
  /\ weekdayNow \in ServerWeekdays
  /\ conversations = <<>>
  /\ memory = <<>>
  /\ requests = <<>>
  /\ weatherCalls = <<>>
  /\ llmCalls = <<>>
  /\ asked = ""
  /\ turns = <<>>
  /\ dayInfo = <<>>
  /\ clarification = <<>>
  /\ cityFound = <<>>
  /\ CleanerIdle
  /\ DetectorIdle
  /\ PreferencesIdle

Commit(w) ==
  /\ conversations' = w.conversations
  /\ memory' = w.memory
  /\ requests' = w.requests
  /\ weatherCalls' = w.weatherCalls
  /\ llmCalls' = w.llmCalls
  /\ UNCHANGED <<config, cleanerVars, detectorVars, gateVars, preferenceVars>>

\* POST /chat arrives and is served up to its first fetch, or to its response
Chat ==
  /\ Len(requests) < MaxRequests
  /\ \E conversation_id \in ConversationIds, message \in ChatMessages :
       Commit(chat(World, conversation_id, message))

\* the fetch of getWeatherForecast completes, and the handler goes on to its
\* response or to the fetch of callLLM
WeatherResponds ==
  \E r \in 1..Len(requests) :
    /\ requests[r].pc = "weather"
    /\ \E weather \in WeatherResults : Commit(weatherResult(World, r, weather))

Regenerated(r, validation) ==
  \E retry \in IF regenerates(validation) THEN LLMResults ELSE {"!ok"} :
    Commit(validatedReply(World, r, validation, retry))

\* the fetch of callLLM completes, and the handler goes on to its response
LLMResponds ==
  \E r \in 1..Len(requests) :
    /\ requests[r].pc = "llm"
    /\ \E result \in LLMResults :
         Regenerated(r, validated1(requests[r].externalContext, result))

Next == Chat \/ WeatherResponds \/ LLMResponds

Spec == Init /\ [][Next]_vars

\* every request so far has been responded to
Idle == \A r \in 1..Len(requests) : requests[r].pc = "done"

\* POST /chat arrives while no other request is being served
ChatSerial == Idle /\ Chat

\* the server when its client sends a request only after the response to the
\* one before
NextSerial == ChatSerial \/ WeatherResponds \/ LLMResponds

SpecSerial == Init /\ [][NextSerial]_vars

(***************************************************************************)
(* Properties of the server.                                               *)
(***************************************************************************)
\* the requests that are turns: they carry a message
Turns == {r \in 1..Len(requests) : requests[r].message # ""}

CalledWeather(r) == \E k \in 1..Len(weatherCalls) : weatherCalls[k].turn = r
CalledLLM(r) == \E k \in 1..Len(llmCalls) : llmCalls[k].turn = r

\* the conversation as request r found it: what precedes its user message
HistoryOf(r) ==
  SubSeq(conversations[requests[r].convoId], 1,
         Min({k \in 1..Len(conversations[requests[r].convoId]) :
                conversations[requests[r].convoId][k].turn = r}) - 1)

\* the day the message of request r asks for
DayOf(r) == extractDayInfo(requests[r].message, weekdayNow)

\* request r has ended with the reply text, stored as its assistant message
RepliedWith(r, text) ==
  /\ requests[r].pc = "done"
  /\ requests[r].status = 200
  /\ requests[r].reply = text
  /\ \E k \in 1..Len(conversations[requests[r].convoId]) :
       conversations[requests[r].convoId][k] = Stored("assistant", text, r)

\* C5 as stated: a turn whose message asks for a day more than 5 days ahead
\* ends with the beyond-forecast-range reply and without a weather call,
\* whether or not a city was resolved.
BeyondRangeAsStated ==
  \A r \in Turns :
    DayOf(r).daysAhead > 5
      => RepliedWith(r, BeyondRangeReply(DayOf(r))) /\ ~CalledWeather(r)

\* C5: a turn whose message asks for a day more than 5 days ahead, that the
\* gate let pass, that does not answer a 'which city' question and for which
\* a city was resolved, ends with the beyond-forecast-range reply and
\* without a call of the weather collaborator or of the LLM.
BeyondRange ==
  \A r \in Turns :
    /\ DayOf(r).daysAhead > 5
    /\ ~requests[r].isProbablyCityResponse
    /\ requests[r].clarificationNeeded = Null
    /\ requests[r].detectedCity # Null
    => /\ RepliedWith(r, BeyondRangeReply(DayOf(r)))
       /\ ~CalledWeather(r)
       /\ ~CalledLLM(r)

\* a Monday on which the forecast for Monday is asked for of Paris
BeyondRangeReplied ==
  \E r \in Turns :
    /\ DayOf(r) = DayInfo("monday", 7)
    /\ ~requests[r].isProbablyCityResponse
    /\ requests[r].clarificationNeeded = Null
    /\ requests[r].detectedCity = "Paris"
    /\ RepliedWith(r, BeyondRangeReply(DayInfo("monday", 7)))

\* the message of request r is a day-only follow-up and the conversation it
\* found holds no city
DayOnlyNoCity(r) ==
  /\ Test(dayOnlyPattern, requests[r].message)
  /\ firstCity(recentReversedAll(HistoryOf(r)), 1) = Null

\* C6 as stated: a day-only follow-up in a conversation that holds no city is
\* answered by the question which city, without a call of the weather
\* collaborator or of the LLM.
DayOnlyAsStated ==
  \A r \in Turns :
    DayOnlyNoCity(r)
      => RepliedWith(r, AskDayCity) /\ ~CalledWeather(r) /\ ~CalledLLM(r)

\* C6: a day-only follow-up in a conversation that holds no city, and whose
\* last assistant message does not ask 'which city', is answered by the
\* question which city, without a call of the weather collaborator or of the
\* LLM.
DayOnlyGate ==
  \A r \in Turns :
    DayOnlyNoCity(r) /\ ~requests[r].isProbablyCityResponse
      => RepliedWith(r, AskDayCity) /\ ~CalledWeather(r) /\ ~CalledLLM(r)

\* "what about monday?" opens a conversation and is asked which city
DayOnlyAsked ==
  \E r \in Turns :
    /\ requests[r].message = "what about monday?"
    /\ HistoryOf(r) = <<>>
    /\ RepliedWith(r, AskDayCity)
    /\ ~CalledWeather(r)
    /\ ~CalledLLM(r)

\* request r was suspended at the fetch of getWeatherForecast or of callLLM
Suspended(r) ==
  \/ config.llmUrl /\ CalledLLM(r)
  \/ config.weatherKey /\ CalledWeather(r)

\* the user message of request r is immediately followed by its reply
FollowedByOwnReply(r) ==
  \E k \in 1..(Len(conversations[requests[r].convoId]) - 1) :
    /\ conversations[requests[r].convoId][k].role = "user"
    /\ conversations[requests[r].convoId][k].turn = r
    /\ conversations[requests[r].convoId][k + 1].role = "assistant"
    /\ conversations[requests[r].convoId][k + 1].turn = r

\* C8 as stated: of two requests for the same conversation id that were both
\* suspended at a fetch and answered, each has its user message immediately
\* followed in the history by its own assistant reply.
SerializedPerId ==
  \A r1, r2 \in Turns :
    /\ r1 # r2
    /\ requests[r1].convoId = requests[r2].convoId
    /\ Suspended(r1) /\ requests[r1].status = 200
    /\ Suspended(r2) /\ requests[r2].status = 200
    => FollowedByOwnReply(r1) /\ FollowedByOwnReply(r2)

\* the calls of the LLM that request r made in the world w
callsOf(w, r) == {k \in 1..Len(w.llmCalls) : w.llmCalls[k].turn = r}

\* a validation that crosses the threshold of regeneration, whatever the
\* detector's cap allows
Doubted(assistantText) ==
  [assistantText |-> assistantText, valid |-> FALSE, response |-> assistantText,
   issues |-> <<"Specific times mentioned without source">>, hasIssues |-> TRUE,
   confidence |-> 80, wasFixed |-> FALSE]

\* what validateResponse makes of the second reply
Revalidated(r, retry) ==
  validateResponse(callLLMContent(retry), requests[r].externalContext, TRUE)

\* the handler of request r from the first reply of the LLM, when its
\* validation crosses the threshold and the second call returns retry
RegeneratedWorld(r, retry) ==
  validatedReply(World, r, Doubted("The tour starts 9:30 AM"), retry)

\* the world w is request r answered after exactly two calls of the LLM with
\* the response of the validation
AnsweredAfterTwo(w, r, validation) ==
  /\ Cardinality(callsOf(w, r)) = 2
  /\ w.requests[r].pc = "done"
  /\ w.requests[r].status = 200
  /\ w.requests[r].reply = validation.response

\* C11: in any turn the LLM collaborator is called at most twice; and when
\* the validation of the first reply crosses the threshold, the handler makes
\* exactly one more call, answers with what validateResponse returns for the
\* second reply, whatever it finds in it, and is done.
RegeneratedOnce ==
  \A r \in Turns :
    /\ Cardinality(callsOf(World, r)) <= 2
    /\ requests[r].pc = "llm"
       => \A retry \in LLMResults :
            AnsweredAfterTwo(RegeneratedWorld(r, retry), r, Revalidated(r, retry))

\* a turn waits for the LLM, and a second reply in which the validation finds
\* issues would be its answer
RegenerationWithIssuesUsed ==
  \E r \in Turns :
    /\ requests[r].pc = "llm"
    /\ Cardinality(callsOf(World, r)) = 1
    /\ \E retry \in LLMResults :
         /\ Revalidated(r, retry).hasIssues
         /\ AnsweredAfterTwo(RegeneratedWorld(r, retry), r, Revalidated(r, retry))

\* C12: every call of the weather collaborator, on every path of every turn,
\* is made with daysAhead in 0..5, and no turn whose message asks for a day
\* further ahead calls it with that day.
ForecastWithinRange ==
  \A k \in 1..Len(weatherCalls) :
    /\ weatherCalls[k].daysAhead \in 0..5
    /\ DayOf(weatherCalls[k].turn).daysAhead > 5
       => /\ requests[weatherCalls[k].turn].isProbablyCityResponse
          /\ weatherCalls[k].daysAhead = 0

\* on a Wednesday the forecast for Monday, 5 days ahead, is asked for of Paris
ForecastAtRangeEnd ==
  \E k \in 1..Len(weatherCalls) :
    /\ weatherCalls[k].daysAhead = 5
    /\ weatherCalls[k].city = "Paris"
    /\ DayOf(weatherCalls[k].turn) = DayInfo("monday", 5)

\* the calls of the weather collaborator that request r made
forecastsOf(r) == {k \in 1..Len(weatherCalls) : weatherCalls[k].turn = r}

\* C13 as stated: a turn in which the weather collaborator was called and
\* returned null ends with the apologetic reply, without a call of the LLM
\* and without a second call of the weather collaborator.
WeatherFailureEndsTurn ==
  \A r \in Turns :
    requests[r].weather = NoWeather
      => /\ RepliedWith(r, WeatherFailureReply(requests[r].detectedCity))
         /\ ~CalledLLM(r)
         /\ Cardinality(forecastsOf(r)) = 1

\* C14 as stated: callLLM never throws past its boundary, so no turn that
\* called the LLM is answered by the generic 500 handler.
LLMNeverThrows ==
  \A r \in Turns :
    CalledLLM(r) => ~(requests[r].status = 500 /\ requests[r].reply = ServerError)

\* the memory of the conversation of request r
MemoryOf(r) == memory[requests[r].convoId]

\* the user message of request r is among the messages of the memory
InMemory(r) == Stored("user", requests[r].message, r) \in Range(MemoryOf(r).messages)

\* the interests and the locations the message of request r mentions are in
\* the memory
Mined(r) ==
  /\ Range(extractPreferences(requests[r].message, NoPreferences).interests)
       \subseteq Range(MemoryOf(r).userPreferences.interests)
  /\ Range(extractLocations(requests[r].message))
       \subseteq Range(MemoryOf(r).mentionedLocations)

\* C15 as stated: every user message the endpoint accepted is passed to the
\* memory update, whichever way the turn ends.
MemoryUpdatedAlways == \A r \in Turns : InMemory(r) /\ Mined(r)

\* C15: every user message the endpoint accepted and the clarification gate
\* let pass is passed to the memory update, and its interests and locations
\* are in the memory, whether the turn ends early, with a generated reply or
\* with an error; a message the gate answers with a question is not passed
\* to it.
MemoryUpdatedWhenPassed ==
  \A r \in Turns :
    IF requests[r].clarificationNeeded = Null THEN InMemory(r) /\ Mined(r)
    ELSE ~InMemory(r)

\* "weather in Paris" passed the gate and Paris is among the locations, while
\* another message of the conversation was answered by the gate
MemoryMined ==
  \E r1, r2 \in Turns :
    /\ requests[r1].convoId = requests[r2].convoId
    /\ requests[r1].message = "weather in Paris"
    /\ requests[r1].clarificationNeeded = Null
    /\ InMemory(r1)
    /\ "Paris" \in Range(MemoryOf(r1).mentionedLocations)
    /\ requests[r2].clarificationNeeded # Null
    /\ ~InMemory(r2)

\* request r was answered with a successful status
Replied(r) == requests[r].pc = "done" /\ requests[r].status = 200

\* the reply of request r as an assistant message
ReplyOf(r) == Stored("assistant", requests[r].reply, r)

ReplyInHistory(r) == ReplyOf(r) \in Range(conversations[requests[r].convoId])
ReplyInMemory(r) == ReplyOf(r) \in Range(MemoryOf(r).messages)

\* C16 as stated: every reply returned with a successful status is appended
\* as an assistant message to the history and to the memory of its
\* conversation.
RepliesStoredEverywhere ==
  \A r \in Turns : Replied(r) => ReplyInHistory(r) /\ ReplyInMemory(r)

\* C16: every reply returned with a successful status is appended as an
\* assistant message to the history of its conversation; it is appended to
\* the memory as well exactly when it is a generated reply, made after a call
\* of the LLM.
RepliesStored ==
  \A r \in Turns :
    Replied(r) => /\ ReplyInHistory(r)
                  /\ ReplyInMemory(r) <=> CalledLLM(r)

\* a generated reply is in the history and in the memory, and the gate's
\* question of the same conversation is in the history only
RepliesOfBothKinds ==
  \E r1, r2 \in Turns :
    /\ requests[r1].convoId = requests[r2].convoId
    /\ Replied(r1) /\ CalledLLM(r1)
    /\ ReplyInHistory(r1) /\ ReplyInMemory(r1)
    /\ Replied(r2) /\ requests[r2].reply = requests[r2].clarificationNeeded
    /\ ReplyInHistory(r2) /\ ~ReplyInMemory(r2)

\* C20: a chat request whose message is missing or empty is answered with
\* the client error 400 and changes nothing: no conversation is created, no
\* history or memory entry is added or modified, no collaborator is called
\* and the earlier requests are as they were.
RejectedChangesNothing ==
  [][(/\ Len(requests') = Len(requests) + 1
      /\ requests'[Len(requests')].message = "")
       => /\ requests'[Len(requests')].status = 400
          /\ requests'[Len(requests')].pc = "done"
          /\ SubSeq(requests', 1, Len(requests)) = requests
          /\ conversations' = conversations
          /\ memory' = memory
          /\ weatherCalls' = weatherCalls
          /\ llmCalls' = llmCalls]_vars

\* a request without a message for the conversation "trip" was answered 400,
\* and there is no conversation "trip"
RejectedUnknownConversation ==
  \E r \in 1..Len(requests) :
    /\ requests[r].message = ""
    /\ requests[r].conversation_id = "trip"
    /\ requests[r].status = 400
    /\ "trip" \notin DOMAIN conversations
    /\ "trip" \notin DOMAIN memory

\* the validation does not cross the threshold of regeneration
BelowThreshold(validation) == validation.valid \/ validation.confidence <= 70

\* the call k of the LLM was made with the stricter prompt
Stricter(k) ==
  Includes(llmCalls[k].messages[1].content, "Previous response had accuracy issues")

ContentOf(result) ==
  IF result = "!ok" THEN LLMDown ELSE IF result = "" THEN NoContent ELSE result

\* the reply of request r when the LLM returns result
ReplyTo(r, result) ==
  validatedReply(World, r, validated1(requests[r].externalContext, result), "!ok")
    .requests[r].reply

\* clean applied to the validated content, and the validation of the cleaned
\* content
CleanOfValidated(r, result) ==
  clean(validateResponse(ContentOf(result), requests[r].externalContext, TRUE).response)
ValidatedOfClean(r, result) ==
  validateResponse(clean(ContentOf(result)), requests[r].externalContext, TRUE).response

\* the reply for result is the text given
RepliesWith(reply, text) == reply = text

\* C22 as stated: in every turn that generates a reply, clean runs after the
\* validation: the text returned is clean applied to the validated text.
CleanedAfterValidation ==
  \A r \in Turns :
    requests[r].pc = "llm"
      => \A result \in LLMResults :
           RepliesWith(ReplyTo(r, result), CleanOfValidated(r, result))

\* C22: in every turn that generates a reply, clean runs on the content of
\* the LLM before the validation, and the text returned is the response of
\* validateResponse for the cleaned content; clean is not applied to it
\* again.
CleanedBeforeValidation ==
  \A r \in Turns :
    requests[r].pc = "llm"
      => \A result \in LLMResults :
           RepliesWith(ReplyTo(r, result), ValidatedOfClean(r, result))

\* the orders differ(left, right) is that the two texts differ
Differ(left, right) == left # right

\* a turn waits for the LLM, and for one of its replies the validation of the
\* cleaned content is not clean of the validated content
CleanOrderMatters ==
  \E r \in Turns :
    /\ requests[r].pc = "llm"
    /\ \E result \in LLMResults :
         /\ Differ(ValidatedOfClean(r, result), CleanOfValidated(r, result))
         /\ RepliesWith(ReplyTo(r, result), ValidatedOfClean(r, result))

\* the most recent assistant message of the conversation that request r
\* found asks 'which city'
AskedCityBefore(r) ==
  \E k \in 1..Len(HistoryOf(r)) :
    /\ HistoryOf(r)[k].role = "assistant"
    /\ \A j \in (k + 1)..Len(HistoryOf(r)) : HistoryOf(r)[j].role # "assistant"
    /\ Includes(ToLower(HistoryOf(r)[k].text), "which city")

\* C23 as stated: the weather collaborator is called in a turn only if
\* needsExternal is true of the turn's message.
ForecastOnlyWhenExternal ==
  \A r \in Turns : CalledWeather(r) => needsExternal(requests[r].message)

\* C23: the weather collaborator is called in a turn only if needsExternal is
\* true of the turn's message, or the most recent assistant message asked
\* 'which city' and a city is resolved for the turn's message; in the second
\* case it is called for today, whatever the message asks.
ForecastWhenAsked ==
  \A r \in Turns :
    CalledWeather(r)
      => \/ needsExternal(requests[r].message) /\ ~AskedCityBefore(r)
         \/ /\ AskedCityBefore(r)
            /\ requests[r].detectedCity # Null
            /\ requests[r].daysAhead = 0

\* after the question which city, "I love museums in Rome" makes the handler
\* fetch the forecast of Rome although the message asks for no external data
ForecastForCityAnswer ==
  \E r \in Turns :
    /\ requests[r].message = "I love museums in Rome"
    /\ ~needsExternal(requests[r].message)
    /\ AskedCityBefore(r)
    /\ \E k \in forecastsOf(r) : weatherCalls[k].city = "Rome"

\* the conversation of request r up to and including its user message
UpToMessage(r) == Append(HistoryOf(r), Stored("user", requests[r].message, r))

\* the messages of a history as the LLM is given them
AsPrompt(messages) ==
  [k \in 1..Len(messages) |->
     [role |-> messages[k].role, content |-> messages[k].text]]

\* C26 as stated: the message list sent to the LLM in a turn is one system
\* message followed by the six most recent messages of the conversation
\* history, all of them when there are fewer, in history order and ending
\* with the current user message.
PromptEndsWithMessage ==
  config.llmUrl =>
    \A k \in 1..Len(llmCalls) :
      /\ llmCalls[k].messages[1].role = "system"
      /\ Tail(llmCalls[k].messages) = AsPrompt(lastOf(UpToMessage(llmCalls[k].turn), 6))

\* the messages of a history are a user message and the reply to it, in turn
Alternates(messages) ==
  /\ Len(messages) % 2 = 0
  /\ \A k \in 1..Len(messages) :
       messages[k].role = (IF k % 2 = 1 THEN "user" ELSE "assistant")

\* C28 as stated: when the requests of a conversation are served one after
\* the other, its history is user and assistant messages in strict
\* alternation, also after a request that ended in an internal error.
HistoryAlternates ==
  Idle => \A id \in DOMAIN conversations : Alternates(conversations[id])

\* the replies the handler writes itself: the questions of the gate, the
\* question for the city of a forecast, and the two refusals of a forecast
CodeGenerated(text) ==
  \/ text \in {AskDayCity, AskWeatherCity, AskWhichLocation, AskWeatherCityNoRef,
               AskContext, AskDetails, WhichCityReply, BeyondForecastRangeReply}
  \/ StartsAt(text, 1, "I can only provide weather forecasts up to 5 days ahead.")
  \/ StartsAt(text, 1, "I'm having trouble getting current weather data for ")

\* C30: a turn that finds 'which city' in the most recent assistant message
\* of its conversation is not put to the clarification gate, goes on to the
\* call of the LLM (through the weather fetch when its message resolves to a
\* city), and never ends with a reply written by the handler itself, so that
\* no second 'which city' question follows the first.
CityAnswerReachesLLM ==
  \A r \in Turns :
    AskedCityBefore(r) =>
      /\ requests[r].clarificationNeeded = Null
      /\ requests[r].pc = "weather" \/ CalledLLM(r)
      /\ Replied(r) => ~CodeGenerated(requests[r].reply)

\* C30 witness: a day-only follow-up that the gate would have answered with
\* a question comes after a 'which city' question and is answered by the LLM
CityAnswerAnsweredByLLM ==
  \E r \in Turns :
    /\ AskedCityBefore(r)
    /\ needsClarification(requests[r].message, HistoryOf(r)) # Null
    /\ CalledLLM(r)
    /\ Replied(r)
    /\ ~CodeGenerated(requests[r].reply)

=============================================================================
